---- MODULE Spec2Model ----
(***************************************************************************)
(* Heuristic per-function complexity extraction pipeline of the SE2        *)
(* metrics repository: the lexical strippers (cc.py, halstead.py), the     *)
(* function-boundary locator and decision-point counter (cc.py), the       *)
(* Halstead tokenizer and metrics (halstead.py), the data-flow analyzers   *)
(* (dfc.py, dfc_pycparser_backup.py, dfc_lizard.py), the directory walks,  *)
(* the batch entry points of the four tools and the line counters         *)
(* (sloc.py, cocomo.py).                                                   *)
(*                                                                         *)
(* A text is a sequence of one-character strings.  Positions are 1-based;  *)
(* a Python index k is position k + 1.                                     *)
(***************************************************************************)
EXTENDS Integers, Sequences, FiniteSets, TLC

VARIABLES
    content,    \* the text of the file under analysis
    pc,         \* position of the running operation
    code,       \* cc._strip_comments_and_strings(content)
    code2,      \* cc._strip_comments_and_strings(code)
    hcode,      \* halstead.strip_comments_and_strings(content)
    hcode2,     \* halstead.strip_comments_and_strings(hcode)
    pos,        \* where func_pattern.finditer resumes its search in code
    matches,    \* the locals of each iteration of the loop over the matches
    results,    \* find_functions_in_file.results
    work,       \* tokenize_source.code while the operators are blanked
    opidx,      \* index of the next operator pattern in the sorted list
    operators,  \* operators_found / the operators argument of compute_halstead
    operands,   \* operands_found / the operands argument of compute_halstead
    metrics,    \* the dictionary returned by compute_halstead
    walk,       \* the files of os.walk that pass the name filters, in visit order
    fidx,       \* index in walk of the file being analyzed
    all_ops,    \* halstead.analyze_directory.all_ops
    all_oprs,   \* halstead.analyze_directory.all_oprs
    analysis,   \* dfc_lizard.analyze_file: analysis.function_list
    func_count, \* dfc_lizard.analyze_file.func_count
    dfc,        \* the dfc local of the running data-flow function
    total_dfc,  \* the total_dfc accumulator of the running data-flow function
    variant,    \* the Strategy A module that runs: "dfc" or "backup"
    tier,       \* the fallback tier analyze_file is in, 0 between files
    analyzer,   \* the DataFlowAnalyzer of compute_data_flow_complexity
    reaching_defs, \* dfc.py: reaching_defs
    reaching_in,   \* dfc_pycparser_backup.py: reaching_in
    reaching_out,  \* dfc_pycparser_backup.py: reaching_out
    changed,    \* the flag of the fixed-point loop
    iteration,  \* the passes of the fixed-point loop made so far
    blocks,     \* the block list of the last compute_data_flow_complexity
    returned,   \* the (dfc, blocks) pair analyze_file returned for each file
    total_files,  \* analyze_directory.total_files
    total_blocks, \* analyze_directory.total_blocks
    reads,      \* the encodings open() was called with, for each file
    details,    \* get_cc_metrics.details
    total_cc,   \* get_cc_metrics.total_cc
    files_count, \* get_cc_metrics.files_count
    tool,       \* the script whose batch entry point runs
    projects,   \* the projects list: whether each root path exists
    pidx,       \* index of the project the batch loop is at
    csv,        \* what has been written to each project's CSV file
    lines,      \* get_SLOC.count_file: file_content.split('\n')
    line_no,    \* index in lines of the line the for loop is at
    in_multiline_comment, \* get_SLOC.count_file: the comment flag
    cnt,        \* get_SLOC.count_file: cnt
    loc         \* what get_LOC.count_file returns for the same file

vars == <<content, pc, code, code2, hcode, hcode2, pos, matches, results,
          work, opidx, operators, operands, metrics,
          walk, fidx, all_ops, all_oprs, analysis, func_count, dfc, total_dfc,
          variant, tier, analyzer, reaching_defs, reaching_in, reaching_out,
          changed, iteration, blocks, returned, total_files, total_blocks,
          reads, details, total_cc, files_count, tool, projects, pidx, csv,
          lines, line_no, in_multiline_comment, cnt, loc>>

stripVars == <<code2, hcode, hcode2>>
ccVars == <<pos, matches, results>>
tokVars == <<work, opidx, operators, operands>>
halVars == <<metrics>>
fileVars == <<content, code, stripVars, ccVars, work, opidx>>
dirVars == <<walk, fidx>>
aggVars == <<all_ops, all_oprs>>
lizVars == <<analysis, func_count>>
sumVars == <<dfc, total_dfc>>
dfcVars == <<variant, tier, analyzer, reaching_defs, reaching_in, reaching_out,
             changed, iteration, blocks, returned, total_files, total_blocks>>
ccDirVars == <<reads, details, total_cc, files_count>>
batchVars == <<tool, projects, pidx, csv>>
slocVars == <<lines, line_no, in_multiline_comment, cnt, loc>>
extVars == <<dirVars, aggVars, lizVars, sumVars, dfcVars, ccDirVars, batchVars,
             slocVars>>

(***************************************************************************)
(* Bounds of the model.                                                    *)
(***************************************************************************)
MaxStripLen == 4

(***************************************************************************)
(* Characters.                                                             *)
(***************************************************************************)
NL == "\n"
BS == "\\"
DQ == "\""
SQ == "'"

Lower == {"a","b","c","d","e","f","g","h","i","j","k","l","m",
          "n","o","p","q","r","s","t","u","v","w","x","y","z"}
Upper == {"A","B","C","D","E","F","G","H","I","J","K","L","M",
          "N","O","P","Q","R","S","T","U","V","W","X","Y","Z"}
Digit == {"0","1","2","3","4","5","6","7","8","9"}

\* \w of the re module on str patterns (ASCII part)
IsWord(c) == c \in Lower \cup Upper \cup Digit \cup {"_"}
\* \s
IsSpace(c) == c \in {" ", "\t", "\n", "\r", "\f"}

\* s[a:b] with 1-based inclusive a and exclusive b
Slice(s, a, b) == IF b <= a THEN <<>> ELSE SubSeq(s, a, b - 1)

\* s.count(c) for a single character c
CountChar(s, c) == Cardinality({i \in 1..Len(s) : s[i] = c})

\* does the literal lit occur in s at position i
LitAt(s, i, lit) ==
    /\ i + Len(lit) - 1 <= Len(s)
    /\ \A k \in 1..Len(lit) : s[i + k - 1] = lit[k]

(***************************************************************************)
(* Regular-expression matching.  XxxEnd(s, j) is the position just after   *)
(* the match that is being extended at j, or 0 when the attempt fails.     *)
(***************************************************************************)

\* the tail  (\\.|[^q\\])*q  of a quoted literal, q the quote character;
\* dotall is re.S: without it '.' does not match a newline
RECURSIVE QuotedEnd(_, _, _, _)
QuotedEnd(s, j, q, dotall) ==
    IF j > Len(s) THEN 0
    ELSE IF s[j] = q THEN j + 1
    ELSE IF s[j] = BS
         THEN IF j + 1 <= Len(s) /\ (dotall \/ s[j + 1] # NL)
              THEN QuotedEnd(s, j + 2, q, dotall)
              ELSE 0
    ELSE QuotedEnd(s, j + 1, q, dotall)

\* the tail  .*  of  //.*  : up to, not including, the next newline
RECURSIVE LineEnd(_, _)
LineEnd(s, j) ==
    IF j > Len(s) \/ s[j] = NL THEN j ELSE LineEnd(s, j + 1)

\* the tail  .*?\*/  (re.S)  or  [\s\S]*?\*/  of a block comment
RECURSIVE BlockEnd(_, _)
BlockEnd(s, j) ==
    IF j + 1 > Len(s) THEN 0
    ELSE IF s[j] = "*" /\ s[j + 1] = "/" THEN j + 2
    ELSE BlockEnd(s, j + 1)

\* the patterns of the strippers, matched at position i
MatchEnd(pat, s, i) ==
    CASE pat = "dq_S"  -> IF s[i] = DQ THEN QuotedEnd(s, i + 1, DQ, TRUE) ELSE 0
      [] pat = "sq_S"  -> IF s[i] = SQ THEN QuotedEnd(s, i + 1, SQ, TRUE) ELSE 0
      [] pat = "dq"    -> IF s[i] = DQ THEN QuotedEnd(s, i + 1, DQ, FALSE) ELSE 0
      [] pat = "sq"    -> IF s[i] = SQ THEN QuotedEnd(s, i + 1, SQ, FALSE) ELSE 0
      [] pat = "line"  -> IF LitAt(s, i, <<"/", "/">>) THEN LineEnd(s, i + 2) ELSE 0
      [] pat = "block" -> IF LitAt(s, i, <<"/", "*">>) THEN BlockEnd(s, i + 2) ELSE 0

\* re.sub(pat, repl, s): leftmost non-overlapping matches, left to right
RECURSIVE SubFrom(_, _, _, _)
SubFrom(pat, repl, s, i) ==
    IF i > Len(s) THEN <<>>
    ELSE LET e == MatchEnd(pat, s, i)
         IN  IF e = 0
             THEN <<s[i]>> \o SubFrom(pat, repl, s, i + 1)
             ELSE repl \o SubFrom(pat, repl, s, e)

re_sub(pat, repl, s) == SubFrom(pat, repl, s, 1)

(***************************************************************************)
(* The lexical strippers.                                                  *)
(***************************************************************************)

\* cc.py: literals first (kept as empty literals), then comments
_strip_comments_and_strings(text) ==
    LET c1 == re_sub("dq_S", <<DQ, DQ>>, text)
        c2 == re_sub("sq_S", <<SQ, SQ>>, c1)
        c3 == re_sub("line", <<>>, c2)
        c4 == re_sub("block", <<>>, c3)
    IN  c4

\* halstead.py: comments first, then literals (deleted)
strip_comments_and_strings(text) ==
    LET c1 == re_sub("line", <<>>, text)
        c2 == re_sub("block", <<>>, c1)
        c3 == re_sub("dq", <<>>, c2)
        c4 == re_sub("sq", <<>>, c3)
    IN  c4

(***************************************************************************)
(* Texts of bounded length.                                                *)
(***************************************************************************)
RECURSIVE SeqsUpTo(_, _)
SeqsUpTo(S, n) ==
    IF n = 0 THEN {<<>>}
    ELSE LET shorter == SeqsUpTo(S, n - 1)
         IN  shorter \cup {Append(t, c) : t \in {u \in shorter : Len(u) = n - 1}, c \in S}

StripAlphabet == {"/", "*", DQ, SQ, BS, NL, "x"}
StripTexts == SeqsUpTo(StripAlphabet, MaxStripLen)

None == <<"None">>

(***************************************************************************)
(* Values of the variables of the operations that are not running.         *)
(***************************************************************************)
IdleFile ==
    /\ content = None /\ code = None /\ code2 = None /\ hcode = None /\ hcode2 = None
    /\ pos = 0 /\ matches = <<>> /\ results = <<>> /\ work = None /\ opidx = 0

IdleDir == walk = <<>> /\ fidx = 0

IdleAgg == all_ops = <<>> /\ all_oprs = <<>>

IdleLizard == analysis = <<>> /\ func_count = 0

IdleSum == dfc = 0 /\ total_dfc = 0

NoAnalyzer ==
    [module |-> "", blocks |-> <<>>, current_block |-> [defs |-> {}, uses |-> {}]]

IdleDfc ==
    /\ variant = "" /\ tier = 0 /\ analyzer = NoAnalyzer
    /\ reaching_defs = <<>> /\ reaching_in = <<>> /\ reaching_out = <<>>
    /\ changed = FALSE /\ iteration = 0 /\ blocks = <<>> /\ returned = <<>>
    /\ total_files = 0 /\ total_blocks = 0

IdleCcDir == reads = <<>> /\ details = <<>> /\ total_cc = 0 /\ files_count = 0

IdleBatch == tool = "" /\ projects = <<>> /\ pidx = 0 /\ csv = <<>>

IdleSloc ==
    /\ lines = <<>> /\ line_no = 0 /\ in_multiline_comment = FALSE /\ cnt = 0 /\ loc = 0

IdleExt ==
    /\ IdleDir /\ IdleAgg /\ IdleLizard /\ IdleSum /\ IdleDfc /\ IdleCcDir /\ IdleBatch
    /\ IdleSloc

(***************************************************************************)
(* Specification of the strippers: each is applied to the text and then    *)
(* to its own output.                                                      *)
(***************************************************************************)
InitStrip ==
    /\ content \in StripTexts
    /\ pc = "strip"
    /\ code = None
    /\ code2 = None
    /\ hcode = None
    /\ hcode2 = None
    /\ pos = 0
    /\ matches = <<>>
    /\ results = <<>>
    /\ work = None
    /\ opidx = 0
    /\ operators = <<>>
    /\ operands = <<>>
    /\ metrics = None
    /\ IdleExt

CcStrip ==
    /\ pc = "strip"
    /\ code = None
    /\ code' = _strip_comments_and_strings(content)
    /\ UNCHANGED <<content, pc, code2, hcode, hcode2>>
    /\ UNCHANGED <<ccVars, tokVars, halVars>>
    /\ UNCHANGED extVars

CcRestrip ==
    /\ pc = "strip"
    /\ code # None
    /\ code2 = None
    /\ code2' = _strip_comments_and_strings(code)
    /\ UNCHANGED <<content, pc, code, hcode, hcode2>>
    /\ UNCHANGED <<ccVars, tokVars, halVars>>
    /\ UNCHANGED extVars

HsStrip ==
    /\ pc = "strip"
    /\ hcode = None
    /\ hcode' = strip_comments_and_strings(content)
    /\ UNCHANGED <<content, pc, code, code2, hcode2>>
    /\ UNCHANGED <<ccVars, tokVars, halVars>>
    /\ UNCHANGED extVars

HsRestrip ==
    /\ pc = "strip"
    /\ hcode # None
    /\ hcode2 = None
    /\ hcode2' = strip_comments_and_strings(hcode)
    /\ UNCHANGED <<content, pc, code, code2, hcode>>
    /\ UNCHANGED <<ccVars, tokVars, halVars>>
    /\ UNCHANGED extVars

NextStrip == CcStrip \/ CcRestrip \/ HsStrip \/ HsRestrip

SpecStrip == InitStrip /\ [][NextStrip]_vars

\* C1: the output of each stripper has as many newline characters as its input
C1_LineCountPreserved ==
    /\ code # None => CountChar(code, NL) = CountChar(content, NL)
    /\ hcode # None => CountChar(hcode, NL) = CountChar(content, NL)

\* C2: each stripper is idempotent, strip(strip(t)) = strip(t)
C2_StripIdempotent ==
    /\ code2 # None => code2 = code
    /\ hcode2 # None => hcode2 = hcode

(***************************************************************************)
(* The function-header pattern func_pattern of find_functions_in_file,     *)
(* in order: a type (a name-start character, then lazily any number of     *)
(* type characters), one or more spaces, a name (a name-start character    *)
(* and name characters), optional spaces, a parenthesised parameter list   *)
(* without ';' and '{', optional spaces, an optional 'const', an optional  *)
(* '->' with a return name, optional spaces, and '{'.                      *)
(* It is matched by following every path of the pattern: each step maps    *)
(* the set of positions the match may have reached to the set it may       *)
(* reach next.                                                             *)
(***************************************************************************)
\* [A-Za-z_~]
IsNameStart(c) == c \in Lower \cup Upper \cup {"_", "~"}
\* the class of the type: \w \s and : * < > , & ( ) [ ]
IsTypeChar(c) ==
    IsWord(c) \/ IsSpace(c) \/ c \in {":", "*", "<", ">", ",", "&", "(", ")", "[", "]"}
\* [\w:]
IsNameChar(c) == IsWord(c) \/ c = ":"
\* [^;{]
IsParamChar(c) == c \notin {";", "{"}
\* [A-Za-z_]
IsArrowNameStart(c) == c \in Lower \cup Upper \cup {"_"}

\* the character classes of func_pattern, by name
InClass(cls, c) ==
    CASE cls = "space"     -> IsSpace(c)
      [] cls = "nameStart" -> IsNameStart(c)
      [] cls = "type"      -> IsTypeChar(c)
      [] cls = "name"      -> IsNameChar(c)
      [] cls = "param"     -> IsParamChar(c)
      [] cls = "arrowName" -> IsArrowNameStart(c)

\* one character of the class
OneEnds(s, P, cls) == {p + 1 : p \in {x \in P : x <= Len(s) /\ InClass(cls, s[x])}}
\* zero or more characters of the class: from p, every position up to the
\* first character that is not of the class
StarEnds(s, P, cls) ==
    UNION { LET stops == {q \in p..Len(s) : ~InClass(cls, s[q])}
            IN  p..(IF stops = {} THEN Len(s) + 1
                    ELSE CHOOSE q \in stops : \A r \in stops : q <= r)
            : p \in P }
\* a literal
LitEnds(s, P, lit) == {p + Len(lit) : p \in {x \in P : LitAt(s, x, lit)}}

\* the positions just after a match of func_pattern that starts at p
HeaderEnds(s, p) ==
    IF p > Len(s) \/ ~IsNameStart(s[p]) THEN {}
    ELSE
    LET type   == StarEnds(s, {p + 1}, "type")
        gap    == StarEnds(s, OneEnds(s, type, "space"), "space")
        name   == StarEnds(s, OneEnds(s, gap, "nameStart"), "name")
        lpar   == LitEnds(s, StarEnds(s, name, "space"), <<"(">>)
        rpar   == LitEnds(s, StarEnds(s, lpar, "param"), <<")">>)
        sp1    == StarEnds(s, rpar, "space")
        const  == sp1 \cup StarEnds(s, LitEnds(s, sp1, <<"c","o","n","s","t">>), "space")
        arrow  == StarEnds(s, LitEnds(s, const, <<"-", ">">>), "space")
        ret    == const \cup StarEnds(s, OneEnds(s, arrow, "arrowName"), "name")
    IN  LitEnds(s, StarEnds(s, ret, "space"), <<"{">>)

SetMin(S) == CHOOSE x \in S : \A y \in S : x <= y

\* func_pattern.finditer: the start of the leftmost match at or after from,
\* 0 when there is none
RECURSIVE FirstMatch(_, _)
FirstMatch(s, from) ==
    IF from > Len(s) THEN 0
    ELSE IF HeaderEnds(s, from) # {} THEN from
    ELSE FirstMatch(s, from + 1)

\* m.end() of the match that starts at p: no part of the pattern but its last
\* character matches '{', so every path ends at the same place
MatchStop(s, p) == SetMin(HeaderEnds(s, p))

(***************************************************************************)
(* The brace scan, lines 126-140: idx runs from the opening brace.  The    *)
(* result is close_brace_idx, or 0 when found stays False.                 *)
(***************************************************************************)
\* the scan without the balance: the first '}' closes
RECURSIVE ScanBracesNoBalance(_, _, _)
ScanBracesNoBalance(s, idx, balance) ==
    IF idx > Len(s) THEN 0
    ELSE IF s[idx] = "}" THEN idx
    ELSE ScanBracesNoBalance(s, idx + 1, balance)

\* lines 126-140
RECURSIVE ScanBraces(_, _, _)
ScanBraces(s, idx, balance) ==
    IF idx > Len(s) THEN 0
    ELSE IF s[idx] = "{" THEN ScanBraces(s, idx + 1, balance + 1)
    ELSE IF s[idx] = "}"
         THEN IF balance - 1 = 0 THEN idx ELSE ScanBraces(s, idx + 1, balance - 1)
    ELSE ScanBraces(s, idx + 1, balance)

(***************************************************************************)
(* The decision-point counter, lines 150-163.                              *)
(***************************************************************************)
\* \b at position i of s: between s[i-1] and s[i], one a word character and
\* the other not (the ends of s count as non-word)
Boundary(s, i) ==
    LET before == i > 1 /\ IsWord(s[i - 1])
        after  == i <= Len(s) /\ IsWord(s[i])
    IN  before # after

\* kw at position i, without the two \b
KeywordAtAnywhere(s, i, kw) == LitAt(s, i, kw)

\* \bkw\b at position i
KeywordAt(s, i, kw) ==
    LitAt(s, i, kw) /\ Boundary(s, i) /\ Boundary(s, i + Len(kw))

\* len(re.findall(r'\bkw\b', s)): non-overlapping, left to right
RECURSIVE CountKeywordFrom(_, _, _)
CountKeywordFrom(s, i, kw) ==
    IF i > Len(s) THEN 0
    ELSE IF KeywordAt(s, i, kw) THEN 1 + CountKeywordFrom(s, i + Len(kw), kw)
    ELSE CountKeywordFrom(s, i + 1, kw)

\* s.count(lit): non-overlapping, left to right
RECURSIVE CountLitFrom(_, _, _)
CountLitFrom(s, i, lit) ==
    IF i > Len(s) THEN 0
    ELSE IF LitAt(s, i, lit) THEN 1 + CountLitFrom(s, i + Len(lit), lit)
    ELSE CountLitFrom(s, i + 1, lit)

Keywords == << <<"i","f">>, <<"f","o","r">>, <<"w","h","i","l","e">>,
               <<"c","a","s","e">>, <<"c","a","t","c","h">> >>

RECURSIVE SumSeq(_)
SumSeq(q) == IF q = <<>> THEN 0 ELSE Head(q) + SumSeq(Tail(q))

decisions(body) ==
      SumSeq([k \in 1..Len(Keywords) |-> CountKeywordFrom(body, 1, Keywords[k])])
    + CountLitFrom(body, 1, <<"?">>)
    + CountLitFrom(body, 1, <<"&", "&">>)
    + CountLitFrom(body, 1, <<"|", "|">>)

\* the decisions alone, without the base path
cc_without_base_path(body) == decisions(body)

\* line 163
cc_of(body) == decisions(body) + 1

\* line 145
start_line(s, m_start) == CountChar(Slice(s, 1, m_start), NL) + 1

\* the newlines after the closing brace instead of those before it
end_line_after(s, close_brace_idx) ==
    CountChar(Slice(s, close_brace_idx, Len(s) + 1), NL) + 1

\* line 146
end_line(s, close_brace_idx) == CountChar(Slice(s, 1, close_brace_idx), NL) + 1

(***************************************************************************)
(* Input texts of find_functions_in_file: concatenations of fragments.     *)
(***************************************************************************)
MaxFrags == 4
MaxBodyFrags == 3

RECURSIVE Flatten(_)
Flatten(fs) == IF fs = <<>> THEN <<>> ELSE Head(fs) \o Flatten(Tail(fs))

FuncFrags ==
    { <<"t"," ","f","(",")","{">>,
      <<"{">>,
      <<"}">>,
      <<NL>>,
      <<" ","e","l","s","e"," ","i","f","(","x",")","{">>,
      <<"/","*",NL,"*","/">>,
      <<"?">> }

BodyFrags ==
    { <<"i","f">>, <<"f","o","r">>, <<"w","h","i","l","e">>, <<"c","a","s","e">>,
      <<"c","a","t","c","h">>, <<"x">>, <<" ">>, <<"&">>, <<"|">>, <<"?">> }

FuncTexts == {Flatten(fs) : fs \in SeqsUpTo(FuncFrags, MaxFrags)}

BodyTexts ==
    { <<"t"," ","f","(",")","{">> \o Flatten(fs) \o <<"}">> :
        fs \in SeqsUpTo(BodyFrags, MaxBodyFrags) }

\* int f(int x){ if (x) return 1; else return 0; }
ExampleIfElse ==
    <<"i","n","t"," ","f","(","i","n","t"," ","x",")","{"," ","i","f"," ","(","x",")",
      " ","r","e","t","u","r","n"," ","1",";"," ","e","l","s","e"," ","r","e","t","u",
      "r","n"," ","0",";"," ","}">>
\* int f(){ if (a && b) return c ? 1 : 0; }
ExampleIfAndTernary ==
    <<"i","n","t"," ","f","(",")","{"," ","i","f"," ","(","a"," ","&","&"," ","b",")",
      " ","r","e","t","u","r","n"," ","c"," ","?"," ","1"," ",":"," ","0",";"," ","}">>
\* t f(){ifdef format showcase}
ExampleSubstrings ==
    <<"t"," ","f","(",")","{","i","f","d","e","f"," ","f","o","r","m","a","t"," ",
      "s","h","o","w","c","a","s","e","}">>

\* t f(){        a header match inside the body of another, with lines
\*  else if(x){?
\* }
\* }
ExampleNested ==
    <<"t"," ","f","(",")","{",NL," ","e","l","s","e"," ","i","f","(","x",")","{","?",NL,
      "}",NL,"}">>

ExampleTexts == {ExampleIfElse, ExampleIfAndTernary, ExampleSubstrings, ExampleNested}

FileName == "file.c"

(***************************************************************************)
(* find_functions_in_file.  content = None is a file that                  *)
(* _read_file_with_fallback could not read.                                *)
(***************************************************************************)
Init ==
    /\ content \in FuncTexts \cup BodyTexts \cup ExampleTexts \cup {None}
    /\ pc = "start"
    /\ code = None
    /\ code2 = None
    /\ hcode = None
    /\ hcode2 = None
    /\ pos = 0
    /\ matches = <<>>
    /\ results = <<>>
    /\ work = None
    /\ opidx = 0
    /\ operators = <<>>
    /\ operands = <<>>
    /\ metrics = None
    /\ IdleExt

\* lines 113-115: the file could not be read
ReturnUnread ==
    /\ pc = "start"
    /\ content = None
    /\ pc' = "done"
    /\ UNCHANGED <<content, code, pos, matches, results>>
    /\ UNCHANGED <<stripVars, tokVars, halVars>>
    /\ UNCHANGED extVars

\* lines 117-121
StripContent ==
    /\ pc = "start"
    /\ content # None
    /\ code' = _strip_comments_and_strings(content)
    /\ pos' = 1
    /\ pc' = "loop"
    /\ UNCHANGED <<content, matches, results>>
    /\ UNCHANGED <<stripVars, tokVars, halVars>>
    /\ UNCHANGED extVars

\* an iteration after which the search resumes behind the closing brace
EmitRecordSkipBody ==
    /\ pc = "loop"
    /\ FirstMatch(code, pos) # 0
    /\ LET m_start == FirstMatch(code, pos)
           m_end == MatchStop(code, m_start)
           open_brace_idx == m_end - 1
           close_brace_idx == ScanBraces(code, open_brace_idx, 0)
           body == Slice(code, m_end, close_brace_idx)
       IN  /\ close_brace_idx # 0
           /\ matches' = Append(matches, [start |-> m_start, end |-> m_end,
                                          found |-> TRUE, close |-> close_brace_idx])
           /\ results' = Append(results,
                            [filename |-> FileName,
                             function_start |-> start_line(code, m_start),
                             function_end |-> end_line(code, close_brace_idx),
                             cc |-> cc_of(body)])
           /\ pos' = close_brace_idx + 1
    /\ UNCHANGED <<content, pc, code>>
    /\ UNCHANGED <<stripVars, tokVars, halVars>>
    /\ UNCHANGED extVars

\* an iteration that puts its record before the earlier ones
EmitRecordFirst ==
    /\ pc = "loop"
    /\ FirstMatch(code, pos) # 0
    /\ LET m_start == FirstMatch(code, pos)
           m_end == MatchStop(code, m_start)
           open_brace_idx == m_end - 1
           close_brace_idx == ScanBraces(code, open_brace_idx, 0)
           body == Slice(code, m_end, close_brace_idx)
       IN  /\ close_brace_idx # 0
           /\ matches' = Append(matches, [start |-> m_start, end |-> m_end,
                                          found |-> TRUE, close |-> close_brace_idx])
           /\ results' = <<[filename |-> FileName,
                            function_start |-> start_line(code, m_start),
                            function_end |-> end_line(code, close_brace_idx),
                            cc |-> cc_of(body)]>> \o results
           /\ pos' = m_end
    /\ UNCHANGED <<content, pc, code>>
    /\ UNCHANGED <<stripVars, tokVars, halVars>>
    /\ UNCHANGED extVars

\* lines 123-170, one iteration that finds the closing brace
EmitRecord ==
    /\ pc = "loop"
    /\ FirstMatch(code, pos) # 0
    /\ LET m_start == FirstMatch(code, pos)
           m_end == MatchStop(code, m_start)
           open_brace_idx == m_end - 1
           close_brace_idx == ScanBraces(code, open_brace_idx, 0)
           body == Slice(code, m_end, close_brace_idx)
       IN  /\ close_brace_idx # 0
           /\ matches' = Append(matches, [start |-> m_start, end |-> m_end,
                                          found |-> TRUE, close |-> close_brace_idx])
           /\ results' = Append(results,
                            [filename |-> FileName,
                             function_start |-> start_line(code, m_start),
                             function_end |-> end_line(code, close_brace_idx),
                             cc |-> cc_of(body)])
           /\ pos' = m_end
    /\ UNCHANGED <<content, pc, code>>
    /\ UNCHANGED <<stripVars, tokVars, halVars>>
    /\ UNCHANGED extVars

\* lines 123-142, one iteration that reaches the end of the text: continue
DiscardMatch ==
    /\ pc = "loop"
    /\ FirstMatch(code, pos) # 0
    /\ LET m_start == FirstMatch(code, pos)
           m_end == MatchStop(code, m_start)
           open_brace_idx == m_end - 1
           close_brace_idx == ScanBraces(code, open_brace_idx, 0)
       IN  /\ close_brace_idx = 0
           /\ matches' = Append(matches, [start |-> m_start, end |-> m_end,
                                          found |-> FALSE, close |-> 0])
           /\ pos' = m_end
    /\ UNCHANGED <<content, pc, code, results>>
    /\ UNCHANGED <<stripVars, tokVars, halVars>>
    /\ UNCHANGED extVars

\* line 172: no further match
ReturnResults ==
    /\ pc = "loop"
    /\ FirstMatch(code, pos) = 0
    /\ pc' = "done"
    /\ UNCHANGED <<content, code, pos, matches, results>>
    /\ UNCHANGED <<stripVars, tokVars, halVars>>
    /\ UNCHANGED extVars

Next == ReturnUnread \/ StripContent \/ EmitRecord \/ DiscardMatch \/ ReturnResults

Spec == Init /\ [][Next]_vars

(***************************************************************************)
(* Properties of find_functions_in_file.                                   *)
(***************************************************************************)
\* the iterations that emitted a record, in order
Emitted == SelectSeq(matches, LAMBDA m : m.found)
\* body of an emitting iteration: code[m.end():close_brace_idx]
BodyOf(m) == Slice(code, m.end, m.close)

RecordsFollowMatches == Len(results) = Len(Emitted)

\* C3: every record has cc >= 1, also for an empty body
C3_CcAtLeastOne ==
    \A k \in 1..Len(results) : results[k].cc >= 1

C3_Witness ==
    /\ RecordsFollowMatches
    /\ \E k \in 1..Len(results) : BodyOf(Emitted[k]) = <<>> /\ results[k].cc = 1

\* occurrences of kw in b that are whole words
WholeWordOccurrences(b, kw) ==
    Cardinality({i \in 1..Len(b) :
        /\ LitAt(b, i, kw)
        /\ (i = 1 \/ ~IsWord(b[i - 1]))
        /\ (i + Len(kw) > Len(b) \/ ~IsWord(b[i + Len(kw)]))})

\* non-overlapping pairs cc: in a maximal run of c, every second character
\* closes a pair
PairOccurrences(b, c) ==
    Cardinality({i \in 1..Len(b) :
        /\ b[i] = c
        /\ LET others == {j \in 1..i : b[j] # c}
               runStart == IF others = {} THEN 1
                           ELSE 1 + CHOOSE j \in others : \A r \in others : r <= j
           IN  (i - runStart + 1) % 2 = 0})

ExpectedCc(b) ==
    1 + WholeWordOccurrences(b, <<"i","f">>)
      + WholeWordOccurrences(b, <<"f","o","r">>)
      + WholeWordOccurrences(b, <<"w","h","i","l","e">>)
      + WholeWordOccurrences(b, <<"c","a","s","e">>)
      + WholeWordOccurrences(b, <<"c","a","t","c","h">>)
      + CountChar(b, "?")
      + PairOccurrences(b, "&")
      + PairOccurrences(b, "|")

\* C4: cc is 1 plus the whole-word occurrences of if, for, while, case and
\* catch in the body, plus the '?' characters, plus the non-overlapping '&&'
\* and '||'; a keyword inside a longer identifier adds nothing
C4_CcCountsDecisionPoints ==
    /\ RecordsFollowMatches
    /\ \A k \in 1..Len(results) : results[k].cc = ExpectedCc(BodyOf(Emitted[k]))
    /\ (pc = "done" /\ content = ExampleSubstrings) =>
            Len(results) = 1 /\ results[1].cc = 1

\* a body with exactly one if, one && and one ?: gives 4
C4_Witness ==
    /\ pc = "done"
    /\ content = ExampleIfAndTernary
    /\ Len(results) = 1
    /\ LET b == BodyOf(Emitted[1])
       IN  /\ WholeWordOccurrences(b, <<"i","f">>) = 1
           /\ PairOccurrences(b, "&") = 1
           /\ CountChar(b, "?") = 1
           /\ ExpectedCc(b) = 4
    /\ results[1].cc = 4

\* a text that is one function definition: the header pattern matches, its
\* '{' is the only '{' of the text, one '}' follows it, and only white space
\* stands before the header and after the '}'
SingleFunctionText(t) ==
    /\ t # None
    /\ FirstMatch(t, 1) # 0
    /\ CountChar(t, "{") = 1
    /\ CountChar(t, "}") = 1
    /\ \E i \in 1..Len(t) :
          /\ t[i] = "}"
          /\ i >= MatchStop(t, FirstMatch(t, 1))
          /\ \A j \in (i + 1)..Len(t) : IsSpace(t[j])
    /\ \A j \in 1..(FirstMatch(t, 1) - 1) : IsSpace(t[j])

ClosingBraceOf(t) == CHOOSE i \in 1..Len(t) : t[i] = "}"

\* C5: a text that is a single function definition gives exactly one record,
\* whose lines are 1 + the newlines of the text before the header start and
\* before the closing brace; the if/else example gives start 1, end 1, cc 2
C5_SingleFunctionRecord ==
    /\ (pc = "done" /\ SingleFunctionText(content)) =>
          /\ Len(results) = 1
          /\ results[1].function_start =
                1 + CountChar(Slice(content, 1, FirstMatch(content, 1)), NL)
          /\ results[1].function_end =
                1 + CountChar(Slice(content, 1, ClosingBraceOf(content)), NL)
    /\ (pc = "done" /\ content = ExampleIfElse) =>
          /\ Len(results) = 1
          /\ results[1].function_start = 1
          /\ results[1].function_end = 1
          /\ results[1].cc = 2

\* C6: every record has function_end >= function_start
C6_EndNotBeforeStart ==
    \A k \in 1..Len(results) : results[k].function_end >= results[k].function_start

C6_Witness ==
    \E k \in 1..Len(results) : results[k].function_end > results[k].function_start

\* '{' minus '}' among s[a..i]
Depth(s, a, i) ==
      Cardinality({j \in a..i : s[j] = "{"})
    - Cardinality({j \in a..i : s[j] = "}"})

\* the '}' at which the balance counted from the opening brace is 0
Closers(s, open) ==
    {i \in (open + 1)..Len(s) : s[i] = "}" /\ Depth(s, open, i) = 0}

\* C7: the scan starts at the header's opening brace; a record is emitted
\* exactly when the balance returns to 0 at some '}', the first such '}' being
\* the closing brace; a match whose scan reaches the end of the text gives no
\* record and the loop goes on to the next match
C7_BraceBalance ==
    /\ RecordsFollowMatches
    /\ \A k \in 1..Len(matches) :
          LET m == matches[k]
              open == m.end - 1
          IN  /\ code[open] = "{"
              /\ m.found <=> Closers(code, open) # {}
              /\ m.found => m.close = SetMin(Closers(code, open))
    /\ pc = "done" /\ content # None =>
          \A p \in 1..Len(code) :
              HeaderEnds(code, p) # {} =>
                  \E k \in 1..Len(matches) : matches[k].start <= p /\ p < matches[k].end

\* a discarded match followed by one that emits a record
C7_Witness ==
    /\ pc = "done"
    /\ \E i, j \in 1..Len(matches) : i < j /\ ~matches[i].found /\ matches[j].found
    /\ Len(results) >= 1

\* C8: no two records of one file have the same function_start
C8_StartLineIsIdentity ==
    \A i, j \in 1..Len(results) :
        i # j => results[i].function_start # results[j].function_start

(***************************************************************************)
(* halstead.tokenize_source.                                               *)
(***************************************************************************)
MaxTokLen == 3

\* halstead.OPERATORS: the source text of each regular expression
OPERATORS ==
    << <<"\\","+","\\","+">>, <<"-","-">>, <<"-",">">>, <<"\\",".">>,
       <<":",":">>, <<"\\","+","\\","=">>, <<"-","=">>, <<"\\","*","=">>,
       <<"/","=">>, <<"%","=">>, <<"\\","+">>, <<"-">>,
       <<"\\","*">>, <<"/">>, <<"%">>, <<"=">>,
       <<"=","=">>, <<"!","=">>, <<"<","=">>, <<">","=">>,
       <<"<">>, <<">">>, <<"&","&">>, <<"\\","|","\\","|">>,
       <<"!">>, <<"&">>, <<"\\","|">>, <<"\\","^">>,
       <<"~">>, <<"<","<">>, <<">",">">>, <<"\\","?">>,
       <<":">>, <<";">>, <<",">>, <<"\\","(">>,
       <<"\\",")">>, <<"\\","{">>, <<"\\","}">>, <<"\\","[">>,
       <<"\\","]">> >>

\* the characters an operator pattern matches: a backslash escapes the
\* character after it
RECURSIVE Unescape(_)
Unescape(pattern) ==
    IF pattern = <<>> THEN <<>>
    ELSE IF Head(pattern) = BS THEN <<pattern[2]>> \o Unescape(Tail(Tail(pattern)))
    ELSE <<Head(pattern)>> \o Unescape(Tail(pattern))

\* sorted(OPERATORS, key=len, reverse=True): by the length of the pattern
\* text, longest first, patterns of equal length in their order in OPERATORS
RECURSIVE ByLengthFrom(_, _)
ByLengthFrom(ops, n) ==
    IF n = 0 THEN <<>>
    ELSE SelectSeq(ops, LAMBDA o : Len(o) = n) \o ByLengthFrom(ops, n - 1)

LongestPattern ==
    LET lens == {Len(OPERATORS[k]) : k \in 1..Len(OPERATORS)}
    IN  CHOOSE n \in lens : \A l \in lens : l <= n

SortedOperators ==
    ByLengthFrom(OPERATORS, LongestPattern)

\* re.findall(op, s) for a pattern that matches the literal lit
RECURSIVE FindallLitFrom(_, _, _)
FindallLitFrom(s, i, lit) ==
    IF i > Len(s) THEN <<>>
    ELSE IF LitAt(s, i, lit) THEN <<lit>> \o FindallLitFrom(s, i + Len(lit), lit)
    ELSE FindallLitFrom(s, i + 1, lit)

\* re.sub(op, repl, s) for a pattern that matches the literal lit
RECURSIVE SubLitFrom(_, _, _, _)
SubLitFrom(s, i, lit, repl) ==
    IF i > Len(s) THEN <<>>
    ELSE IF LitAt(s, i, lit) THEN repl \o SubLitFrom(s, i + Len(lit), lit, repl)
    ELSE <<s[i]>> \o SubLitFrom(s, i + 1, lit, repl)

\* line 47 without the substitution
KeepOperator(s, lit) == s

\* line 47: code = re.sub(op, " ", code)
BlankOperator(s, lit) == SubLitFrom(s, 1, lit, <<" ">>)

\* [_a-zA-Z] and [_a-zA-Z0-9]
IsIdentStart(c) == c \in Lower \cup Upper \cup {"_"}
IsIdentChar(c) == c \in Lower \cup Upper \cup Digit \cup {"_"}

\* the position after the longest run of characters of S that starts at i
RECURSIVE RunEnd(_, _, _)
RunEnd(s, i, S) ==
    IF i > Len(s) \/ s[i] \notin S THEN i ELSE RunEnd(s, i + 1, S)

\* IDENTIFIER at position i: the position after the match, 0 when none.
\* The run is taken greedily; a shorter run ends between two word
\* characters, where \b does not hold
IdentifierEnd(s, i) ==
    IF Boundary(s, i) /\ i <= Len(s) /\ IsIdentStart(s[i])
    THEN LET e == RunEnd(s, i + 1, Lower \cup Upper \cup Digit \cup {"_"})
         IN  IF Boundary(s, e) THEN e ELSE 0
    ELSE 0

\* NUMBER at position i: digits, optionally '.' and digits, between two \b
NumberEnd(s, i) ==
    IF Boundary(s, i) /\ i <= Len(s) /\ s[i] \in Digit
    THEN LET e1 == RunEnd(s, i + 1, Digit)
             e2 == IF e1 + 1 <= Len(s) /\ s[e1] = "." /\ s[e1 + 1] \in Digit
                   THEN RunEnd(s, e1 + 1, Digit) ELSE 0
         IN  IF e2 # 0 /\ Boundary(s, e2) THEN e2
             ELSE IF Boundary(s, e1) THEN e1
             ELSE 0
    ELSE 0

OperandEnd(kind, s, i) ==
    IF kind = "IDENTIFIER" THEN IdentifierEnd(s, i) ELSE NumberEnd(s, i)

\* IDENTIFIER.findall(s) and [m.group(0) for m in NUMBER.finditer(s)]
RECURSIVE FindallOperandFrom(_, _, _)
FindallOperandFrom(kind, s, i) ==
    IF i > Len(s) THEN <<>>
    ELSE LET e == OperandEnd(kind, s, i)
         IN  IF e = 0 THEN FindallOperandFrom(kind, s, i + 1)
             ELSE <<Slice(s, i, e)>> \o FindallOperandFrom(kind, s, e)

TokAlphabet == {"a", "1", "+", "=", "<", "-", ">", ";", "."}

\* a += b;
ExampleCompound == <<"a"," ","+","="," ","b",";">>
\* "x"+"y": the literals are deleted and the two '+' join
ExampleJoined == <<"a","+",DQ,DQ,"+","b">>

TokTexts == SeqsUpTo(TokAlphabet, MaxTokLen) \cup {ExampleCompound, ExampleJoined}

InitTok ==
    /\ content \in TokTexts
    /\ pc = "tokenize"
    /\ code = None
    /\ code2 = None
    /\ hcode = None
    /\ hcode2 = None
    /\ pos = 0
    /\ matches = <<>>
    /\ results = <<>>
    /\ work = None
    /\ opidx = 0
    /\ operators = <<>>
    /\ operands = <<>>
    /\ metrics = None
    /\ IdleExt

\* lines 37-40
TokStrip ==
    /\ pc = "tokenize"
    /\ hcode' = strip_comments_and_strings(content)
    /\ work' = hcode'
    /\ opidx' = 1
    /\ operators' = <<>>
    /\ operands' = <<>>
    /\ pc' = "operators"
    /\ UNCHANGED <<content, code, code2, hcode2, metrics>>
    /\ UNCHANGED ccVars
    /\ UNCHANGED extVars

\* lines 43-47, one iteration of the loop over the sorted patterns
TokOperator ==
    /\ pc = "operators"
    /\ opidx <= Len(SortedOperators)
    /\ LET lit == Unescape(SortedOperators[opidx])
           found == FindallLitFrom(work, 1, lit)
       IN  /\ operators' = operators \o found
           /\ work' = IF found # <<>> THEN BlankOperator(work, lit) ELSE work
    /\ opidx' = opidx + 1
    /\ UNCHANGED <<content, pc, code, code2, hcode, hcode2, operands, metrics>>
    /\ UNCHANGED ccVars
    /\ UNCHANGED extVars

\* lines 50-55
TokOperands ==
    /\ pc = "operators"
    /\ opidx > Len(SortedOperators)
    /\ operands' = FindallOperandFrom("IDENTIFIER", work, 1)
                      \o FindallOperandFrom("NUMBER", work, 1)
    /\ pc' = "tokenized"
    /\ UNCHANGED <<content, code, code2, hcode, hcode2, work, opidx, operators, metrics>>
    /\ UNCHANGED ccVars
    /\ UNCHANGED extVars

NextTok == TokStrip \/ TokOperator \/ TokOperands

SpecTok == InitTok /\ [][NextTok]_vars

(***************************************************************************)
(* Properties of tokenize_source.                                          *)
(***************************************************************************)
OperatorLiterals == {Unescape(OPERATORS[k]) : k \in 1..Len(OPERATORS)}
CompoundLiterals == {l \in OperatorLiterals : Len(l) = 2}
OperatorChars == UNION {{l[k] : k \in 1..Len(l)} : l \in OperatorLiterals}

\* occurrences of the character c in the tokens of a list
RECURSIVE CharsInTokens(_, _)
CharsInTokens(toks, c) ==
    IF toks = <<>> THEN 0
    ELSE CountChar(Head(toks), c) + CharsInTokens(Tail(toks), c)

RECURSIVE TotalLength(_)
TotalLength(toks) ==
    IF toks = <<>> THEN 0 ELSE Len(Head(toks)) + TotalLength(Tail(toks))

CountToken(toks, t) == Cardinality({k \in 1..Len(toks) : toks[k] = t})

\* occurrences of the compound lit in s with no operator character next to them
IsolatedOccurrences(s, lit) ==
    {i \in 1..Len(s) :
        /\ LitAt(s, i, lit)
        /\ (i = 1 \/ s[i - 1] \notin OperatorChars)
        /\ (i + Len(lit) > Len(s) \/ s[i + Len(lit)] \notin OperatorChars)}

MaxTokens == 3

Num(n, d, l) == [err |-> "", num |-> n, den |-> d, lg |-> l]
Raised(e) == [err |-> e, num |-> 0, den |-> 1, lg |-> 2]
OfInt(n) == Num(n, 1, 2)
Zero == Num(0, 1, 2)

IsZero(x) == x.err = "" /\ (x.num = 0 \/ x.lg = 1)
IsPositive(x) == x.err = "" /\ x.num > 0 /\ x.lg > 1

\* math.log2(n): ValueError for n <= 0
Log2(n) == IF n <= 0 THEN Raised("ValueError") ELSE Num(1, 1, n)

\* x * y, at most one of them not rational
Mul(x, y) ==
    IF x.err # "" THEN x
    ELSE IF y.err # "" THEN y
    ELSE Num(x.num * y.num, x.den * y.den, IF x.lg = 2 THEN y.lg ELSE x.lg)

\* x / y for a rational y: ZeroDivisionError for y = 0
Div(x, y) ==
    IF x.err # "" THEN x
    ELSE IF y.err # "" THEN y
    ELSE IF y.num = 0 THEN Raised("ZeroDivisionError")
    ELSE IF y.num > 0 THEN Num(x.num * y.den, x.den * y.num, x.lg)
    ELSE Num(0 - x.num * y.den, 0 - x.den * y.num, x.lg)

\* an order-sensitive count: the runs of equal adjacent tokens
DistinctRuns(toks) ==
    Cardinality({k \in 1..Len(toks) : k = 1 \/ toks[k] # toks[k - 1]})

\* len(set(tokens))
Distinct(toks) == Cardinality({toks[k] : k \in 1..Len(toks)})

\* lines 71-73
volume_of(vocabulary, length) ==
    IF vocabulary > 0 /\ length > 0
    THEN Mul(OfInt(length), Log2(vocabulary))
    ELSE Zero

\* lines 75-77 without the test of n2
difficulty_unguarded(n1, n2, N2) ==
    Mul(Div(OfInt(n1), OfInt(2)), Div(OfInt(N2), OfInt(n2)))

\* lines 75-77
difficulty_of(n1, n2, N2) ==
    IF n2 > 0
    THEN Mul(Div(OfInt(n1), OfInt(2)), Div(OfInt(N2), OfInt(n2)))
    ELSE Zero

\* lines 63-95
compute_halstead(ops, oprs) ==
    LET n1 == Distinct(ops)
        n2 == Distinct(oprs)
        N1 == Len(ops)
        N2 == Len(oprs)
        vocabulary == n1 + n2
        length == N1 + N2
        volume == volume_of(vocabulary, length)
        difficulty == difficulty_of(n1, n2, N2)
        effort == Mul(difficulty, volume)
        time == IF IsPositive(effort) THEN Div(effort, OfInt(18)) ELSE
                IF effort.err # "" THEN effort ELSE Zero
        bugs == IF IsPositive(volume) THEN Div(volume, OfInt(3000)) ELSE
                IF volume.err # "" THEN volume ELSE Zero
    IN  [n1 |-> n1, n2 |-> n2, N1 |-> N1, N2 |-> N2,
         vocabulary |-> vocabulary, length |-> length,
         volume |-> volume, difficulty |-> difficulty, effort |-> effort,
         time |-> time, bugs |-> bugs]

OperatorTokens == {<<"+">>, <<";">>}
OperandTokens == {<<"a">>, <<"b">>}

InitHal ==
    /\ content = None
    /\ pc = "compute"
    /\ code = None
    /\ code2 = None
    /\ hcode = None
    /\ hcode2 = None
    /\ pos = 0
    /\ matches = <<>>
    /\ results = <<>>
    /\ work = None
    /\ opidx = 0
    /\ operators \in SeqsUpTo(OperatorTokens, MaxTokens)
    /\ operands \in SeqsUpTo(OperandTokens, MaxTokens)
    /\ metrics = None
    /\ IdleExt

\* an exception of a step leaves the call without a dictionary
ComputeHalstead ==
    /\ pc = "compute"
    /\ LET m == compute_halstead(operators, operands)
           errs == {x.err : x \in {m.volume, m.difficulty, m.effort, m.time, m.bugs}}
                      \ {""}
       IN  IF errs = {}
           THEN metrics' = m /\ pc' = "computed"
           ELSE metrics' = None /\ pc' = CHOOSE e \in errs : TRUE
    /\ UNCHANGED <<content, code, code2, hcode, hcode2>>
    /\ UNCHANGED <<ccVars, work, opidx, operators, operands>>
    /\ UNCHANGED extVars

NextHal == ComputeHalstead

SpecHal == InitHal /\ [][NextHal]_vars

\* x = y * k for an integer k
IsTimes(x, y, k) ==
    \/ IsZero(x) /\ IsZero(y)
    \/ /\ x.err = "" /\ y.err = ""
       /\ x.lg = y.lg
       /\ x.num * y.den = k * y.num * x.den

\* x = y * z, z rational
IsProduct(x, y, z) ==
    \/ IsZero(x) /\ (IsZero(y) \/ IsZero(z))
    \/ /\ ~IsZero(x) /\ ~IsZero(y) /\ ~IsZero(z)
       /\ z.lg = 2
       /\ x.lg = y.lg
       /\ x.num * y.den * z.den = y.num * z.num * x.den

\* C10: compute_halstead raises no division error for any two lists; volume
\* is 0 when vocabulary or length is 0, difficulty is 0 when n2 is 0,
\* effort = difficulty * volume, bugs and time are 0 when volume is 0, and
\* otherwise bugs = volume / 3000 and time = effort / 18
C10_ZeroGuards ==
    /\ pc \in {"compute", "computed"}
    /\ pc = "computed" =>
          /\ metrics.n2 = Distinct(operands)
          /\ metrics.vocabulary = Distinct(operators) + Distinct(operands)
          /\ metrics.length = Len(operators) + Len(operands)
          /\ (metrics.vocabulary = 0 \/ metrics.length = 0) => IsZero(metrics.volume)
          /\ metrics.n2 = 0 => IsZero(metrics.difficulty)
          /\ IsProduct(metrics.effort, metrics.volume, metrics.difficulty)
          /\ IsZero(metrics.volume) => IsZero(metrics.bugs) /\ IsZero(metrics.time)
          /\ ~IsZero(metrics.volume) =>
                /\ IsTimes(metrics.volume, metrics.bugs, 3000)
                /\ IsTimes(metrics.effort, metrics.time, 18)

\* operators but no operand: n2 = 0 and the volume is not 0
C10_Witness ==
    /\ pc = "computed"
    /\ operands = <<>>
    /\ metrics.n2 = 0
    /\ ~IsZero(metrics.volume)
    /\ IsZero(metrics.difficulty)
    /\ IsZero(metrics.time)
    /\ IsTimes(metrics.volume, metrics.bugs, 3000)

(***************************************************************************)
(* halstead.analyze_directory: the token lists of the files of the walk    *)
(* are concatenated in visit order and the metrics are computed once.      *)
(***************************************************************************)
MaxFiles == 3

\* lines 43-47 of tokenize_source as one fold over the sorted patterns
RECURSIVE TokenizeOperators(_, _, _)
TokenizeOperators(text, k, found) ==
    IF k > Len(SortedOperators) THEN [code |-> text, operators_found |-> found]
    ELSE LET lit == Unescape(SortedOperators[k])
             hits == FindallLitFrom(text, 1, lit)
         IN  IF hits = <<>> THEN TokenizeOperators(text, k + 1, found)
             ELSE TokenizeOperators(BlankOperator(text, lit), k + 1, found \o hits)

\* lines 35-57
tokenize_source(text) ==
    LET r == TokenizeOperators(strip_comments_and_strings(text), 1, <<>>)
    IN  [ops |-> r.operators_found,
         oprs |-> FindallOperandFrom("IDENTIFIER", r.code, 1)
                     \o FindallOperandFrom("NUMBER", r.code, 1)]

DirTexts ==
    { <<"a">>, <<"+">>, <<"a", "+", "b", ";">>, <<"b", "=", "a", ";">> }

\* a file of the walk: its text, or a file that open() cannot read
DirFiles ==
    {[readable |-> TRUE, text |-> t] : t \in DirTexts}
        \cup {[readable |-> FALSE, text |-> <<>>]}

InitHalDir ==
    /\ pc = "walk"
    /\ walk \in SeqsUpTo(DirFiles, MaxFiles)
    /\ fidx = 1
    /\ all_ops = <<>>
    /\ all_oprs = <<>>
    /\ operators = <<>>
    /\ operands = <<>>
    /\ metrics = None
    /\ IdleFile /\ IdleLizard /\ IdleSum /\ IdleDfc /\ IdleCcDir /\ IdleBatch
    /\ IdleSloc

\* lines 124-129: one file of the walk is read and tokenized
HalDirFile ==
    /\ pc = "walk"
    /\ fidx <= Len(walk)
    /\ walk[fidx].readable
    /\ LET toks == tokenize_source(walk[fidx].text)
       IN  /\ all_ops' = all_ops \o toks.ops
           /\ all_oprs' = all_oprs \o toks.oprs
    /\ fidx' = fidx + 1
    /\ UNCHANGED <<pc, walk, operators, operands, metrics, fileVars>>
    /\ UNCHANGED <<lizVars, sumVars, dfcVars, ccDirVars, batchVars, slocVars>>

\* lines 130-132: the file cannot be read, continue
HalDirSkip ==
    /\ pc = "walk"
    /\ fidx <= Len(walk)
    /\ ~walk[fidx].readable
    /\ fidx' = fidx + 1
    /\ UNCHANGED <<pc, walk, all_ops, all_oprs, operators, operands, metrics, fileVars>>
    /\ UNCHANGED <<lizVars, sumVars, dfcVars, ccDirVars, batchVars, slocVars>>

\* line 134
HalDirCompute ==
    /\ pc = "walk"
    /\ fidx > Len(walk)
    /\ LET m == compute_halstead(all_ops, all_oprs)
           errs == {x.err : x \in {m.volume, m.difficulty, m.effort, m.time, m.bugs}}
                      \ {""}
       IN  IF errs = {}
           THEN metrics' = m /\ pc' = "aggregated"
           ELSE metrics' = None /\ pc' = CHOOSE e \in errs : TRUE
    /\ UNCHANGED <<walk, fidx, all_ops, all_oprs, operators, operands, fileVars>>
    /\ UNCHANGED <<lizVars, sumVars, dfcVars, ccDirVars, batchVars, slocVars>>

NextHalDir == HalDirFile \/ HalDirSkip \/ HalDirCompute

SpecHalDir == InitHalDir /\ [][NextHalDir]_vars

Perms(n) == {f \in [1..n -> 1..n] : \A i, j \in 1..n : f[i] = f[j] => i = j}

Permuted(q, f) == [k \in 1..Len(q) |-> q[f[k]]]

Swapped(q, i, j) ==
    [k \in 1..Len(q) |-> IF k = i THEN q[j] ELSE IF k = j THEN q[i] ELSE q[k]]

SameCounts(m1, m2) ==
    /\ m1.n1 = m2.n1 /\ m1.n2 = m2.n2 /\ m1.N1 = m2.N1 /\ m1.N2 = m2.N2
    /\ m1.vocabulary = m2.vocabulary /\ m1.length = m2.length

\* the token lists of the readable files of a walk
FileTokens(w) ==
    [k \in 1..Len(w) |-> IF w[k].readable THEN tokenize_source(w[k].text)
                         ELSE [ops |-> <<>>, oprs |-> <<>>]]

RECURSIVE ConcatOps(_, _)
ConcatOps(toks, k) ==
    IF k > Len(toks) THEN <<>> ELSE toks[k].ops \o ConcatOps(toks, k + 1)

RECURSIVE ConcatOprs(_, _)
ConcatOprs(toks, k) ==
    IF k > Len(toks) THEN <<>> ELSE toks[k].oprs \o ConcatOprs(toks, k + 1)

TokenSet(q) == {q[k] : k \in 1..Len(q)}

\* C11: the aggregate of a directory is the same for every order of the
\* walk and for every exchange of two tokens of either list; its N1 and N2
\* are the sums of the per-file totals and its n1 and n2 the sizes of the
\* unions of the per-file distinct sets.
C11_MultisetOnly ==
    pc = "aggregated" =>
        LET toks == FileTokens(walk)
            n == Len(walk)
        IN  /\ \A f \in Perms(n) :
                   LET t2 == Permuted(toks, f)
                   IN  SameCounts(metrics,
                                  compute_halstead(ConcatOps(t2, 1), ConcatOprs(t2, 1)))
            /\ \A i, j \in 1..Len(all_ops) :
                   SameCounts(metrics, compute_halstead(Swapped(all_ops, i, j), all_oprs))
            /\ \A i, j \in 1..Len(all_oprs) :
                   SameCounts(metrics, compute_halstead(all_ops, Swapped(all_oprs, i, j)))
            /\ metrics.N1 = SumSeq([k \in 1..n |-> Len(toks[k].ops)])
            /\ metrics.N2 = SumSeq([k \in 1..n |-> Len(toks[k].oprs)])
            /\ metrics.n1 = Cardinality(UNION {TokenSet(toks[k].ops) : k \in 1..n})
            /\ metrics.n2 = Cardinality(UNION {TokenSet(toks[k].oprs) : k \in 1..n})

\* two files share an operator and the walk has another order
C11_Witness ==
    /\ pc = "aggregated"
    /\ Len(walk) >= 2
    /\ walk[1] # walk[2]
    /\ LET toks == FileTokens(walk)
       IN  /\ TokenSet(toks[1].ops) \cap TokenSet(toks[2].ops) # {}
           /\ metrics.n1 < Distinct(toks[1].ops) + Distinct(toks[2].ops)
           /\ metrics.N1 = Len(toks[1].ops) + Len(toks[2].ops)
           /\ ConcatOps(<<toks[2], toks[1]>>, 1) # all_ops

(***************************************************************************)
(* Strategy B (dfc_lizard.py): the estimate of one function and the loop   *)
(* of analyze_file over the functions lizard reports.                      *)
(***************************************************************************)
MaxParams == 3
MaxCc == 4
MaxFuncs == 2

max(a, b) == IF a >= b THEN a ELSE b

\* the estimate with the base path left in the control flow
estimate_dfc_with_base_path(func_info) ==
    LET param_flow == func_info.parameter_count
        control_flow == max(0, func_info.cyclomatic_complexity)
    IN  (param_flow * control_flow) + control_flow

\* lines 21-30
estimate_dfc_from_function(func_info) ==
    LET param_flow == func_info.parameter_count
        control_flow == max(0, func_info.cyclomatic_complexity - 1)
    IN  (param_flow * control_flow) + control_flow

\* the parameter_count and cyclomatic_complexity of a lizard FunctionInfo
FuncInfos == [parameter_count : 0..MaxParams, cyclomatic_complexity : 0..MaxCc]

\* what lizard.analyze_file gives: an exception or a function list
Analyses ==
    {[raises |-> TRUE, function_list |-> <<>>]}
        \cup {[raises |-> FALSE, function_list |-> fl] : fl \in SeqsUpTo(FuncInfos, MaxFuncs)}

InitLizard ==
    /\ pc = "analyze"
    /\ analysis \in Analyses
    /\ func_count = 0
    /\ dfc = 0
    /\ total_dfc = 0
    /\ operators = <<>>
    /\ operands = <<>>
    /\ metrics = None
    /\ IdleFile /\ IdleDir /\ IdleAgg /\ IdleDfc /\ IdleCcDir /\ IdleBatch
    /\ IdleSloc

\* lines 41, 52-53: lizard raises
LizardRaises ==
    /\ pc = "analyze"
    /\ analysis.raises
    /\ total_dfc' = 0
    /\ func_count' = 0
    /\ pc' = "returned"
    /\ UNCHANGED <<analysis, dfc, operators, operands, metrics, fileVars>>
    /\ UNCHANGED <<dirVars, aggVars, dfcVars, ccDirVars, batchVars, slocVars>>

\* lines 46-49: one function of the list
LizardFunction ==
    /\ pc = "analyze"
    /\ ~analysis.raises
    /\ func_count < Len(analysis.function_list)
    /\ dfc' = estimate_dfc_from_function(analysis.function_list[func_count + 1])
    /\ total_dfc' = total_dfc + dfc'
    /\ func_count' = func_count + 1
    /\ UNCHANGED <<pc, analysis, operators, operands, metrics, fileVars>>
    /\ UNCHANGED <<dirVars, aggVars, dfcVars, ccDirVars, batchVars, slocVars>>

\* line 51
LizardReturn ==
    /\ pc = "analyze"
    /\ ~analysis.raises
    /\ func_count = Len(analysis.function_list)
    /\ pc' = "returned"
    /\ UNCHANGED <<analysis, func_count, dfc, total_dfc, operators, operands, metrics,
                   fileVars>>
    /\ UNCHANGED <<dirVars, aggVars, dfcVars, ccDirVars, batchVars, slocVars>>

NextLizard == LizardRaises \/ LizardFunction \/ LizardReturn

SpecLizard == InitLizard /\ [][NextLizard]_vars

Node(kind, name, kids) == [kind |-> kind, name |-> name, kids |-> kids]
NoNode == Node("None", "", <<>>)
ID(name) == Node("ID", name, <<>>)
Constant == Node("Constant", "", <<>>)
EmptyStatement == Node("EmptyStatement", "", <<>>)
BinaryOp(left, right) == Node("BinaryOp", "", <<left, right>>)
ArrayRef(name, subscript) == Node("ArrayRef", "", <<name, subscript>>)
Decl(name, init) == Node("Decl", name, <<init>>)
Assignment(lvalue, rvalue) == Node("Assignment", "", <<lvalue, rvalue>>)
If(cond, iftrue, iffalse) == Node("If", "", <<cond, iftrue, iffalse>>)
While(cond, stmt) == Node("While", "", <<cond, stmt>>)
For(init, cond, next, stmt) == Node("For", "", <<init, cond, next, stmt>>)
Compound(block_items) == Node("Compound", "", block_items)
FileAST(ext) == Node("FileAST", "", ext)

\* dfc.py lines 10-12
dfc_DataFlowAnalyzer ==
    [module |-> "dfc", blocks |-> <<>>,
     current_block |-> [defs |-> {}, uses |-> {}]]

\* dfc_pycparser_backup.py lines 31-34; visited_ids is only ever assigned
backup_DataFlowAnalyzer ==
    [module |-> "backup", blocks |-> <<>>,
     current_block |-> [defs |-> {}, uses |-> {}, exposed |-> {}]]

\* an analyzer object that outlives the call that made it
KeptAnalyzer(module) ==
    IF analyzer.module = module THEN analyzer
    ELSE IF module = "backup" THEN backup_DataFlowAnalyzer ELSE dfc_DataFlowAnalyzer

\* analyzer = DataFlowAnalyzer() of the module that runs
DataFlowAnalyzer(module) ==
    IF module = "backup" THEN backup_DataFlowAnalyzer ELSE dfc_DataFlowAnalyzer

\* dfc.py lines 14-17
dfc_add_block(self) ==
    [self EXCEPT
        !.blocks = IF self.current_block.defs # {} \/ self.current_block.uses # {}
                   THEN Append(self.blocks, self.current_block)
                   ELSE self.blocks,
        !.current_block = [defs |-> {}, uses |-> {}]]

\* dfc_pycparser_backup.py lines 36-43
backup_add_block(self) ==
    [self EXCEPT
        !.blocks = IF self.current_block.defs # {} \/ self.current_block.uses # {}
                   THEN Append(self.blocks,
                               [self.current_block EXCEPT
                                   !.exposed = self.current_block.uses
                                                   \ self.current_block.defs])
                   ELSE self.blocks,
        !.current_block = [defs |-> {}, uses |-> {}, exposed |-> {}]]

\* add_block without its test of the current block
add_block_unconditional(self) ==
    [self EXCEPT
        !.blocks = Append(self.blocks, self.current_block),
        !.current_block = IF self.module = "backup"
                          THEN [defs |-> {}, uses |-> {}, exposed |-> {}]
                          ELSE [defs |-> {}, uses |-> {}]]

\* self.add_block() on an analyzer of either module
add_block(self) ==
    IF self.module = "backup" THEN backup_add_block(self) ELSE dfc_add_block(self)

\* dfc.py lines 27-29
dfc_visit_ID(self, node) ==
    [self EXCEPT !.current_block.uses = @ \cup {node.name}]

\* dfc_pycparser_backup.py lines 54-58
backup_visit_ID(self, node) ==
    IF node.name \notin self.current_block.defs
    THEN [self EXCEPT !.current_block.uses = @ \cup {node.name}]
    ELSE self

RECURSIVE visit(_, _)
RECURSIVE VisitChildren(_, _, _)

\* dfc.py lines 20-25: the target first, then the right-hand side
dfc_visit_Assignment(self, node) ==
    LET lvalue == node.kids[1]
        rvalue == node.kids[2]
        s1 == IF lvalue.kind = "ID"
              THEN [self EXCEPT !.current_block.defs = @ \cup {lvalue.name}]
              ELSE self
    IN  IF rvalue # NoNode THEN visit(s1, rvalue) ELSE s1

\* dfc_pycparser_backup.py lines 46-52: the right-hand side first
backup_visit_Assignment(self, node) ==
    LET lvalue == node.kids[1]
        rvalue == node.kids[2]
        s1 == IF rvalue # NoNode THEN visit(self, rvalue) ELSE self
    IN  IF lvalue.kind = "ID"
        THEN [s1 EXCEPT !.current_block.defs = @ \cup {lvalue.name}]
        ELSE s1

\* visit_If without the add_block between the two arms
visit_If_arms_together(self, node) ==
    LET cond == node.kids[1]
        iftrue == node.kids[2]
        iffalse == node.kids[3]
        s1 == add_block(IF cond # NoNode THEN visit(self, cond) ELSE self)
        s2 == IF iftrue # NoNode THEN visit(s1, iftrue) ELSE s1
    IN  add_block(IF iffalse # NoNode THEN visit(s2, iffalse) ELSE s2)

\* dfc.py lines 31-41, dfc_pycparser_backup.py lines 60-70
visit_If(self, node) ==
    LET cond == node.kids[1]
        iftrue == node.kids[2]
        iffalse == node.kids[3]
        s1 == add_block(IF cond # NoNode THEN visit(self, cond) ELSE self)
        s2 == IF iftrue # NoNode THEN add_block(visit(s1, iftrue)) ELSE s1
    IN  IF iffalse # NoNode THEN add_block(visit(s2, iffalse)) ELSE s2

\* dfc.py lines 43-49, dfc_pycparser_backup.py lines 72-78
visit_While(self, node) ==
    LET cond == node.kids[1]
        stmt == node.kids[2]
        s1 == add_block(IF cond # NoNode THEN visit(self, cond) ELSE self)
    IN  add_block(IF stmt # NoNode THEN visit(s1, stmt) ELSE s1)

\* dfc.py lines 51-61, dfc_pycparser_backup.py lines 80-90
visit_For(self, node) ==
    LET init == node.kids[1]
        cond == node.kids[2]
        next == node.kids[3]
        stmt == node.kids[4]
        s1 == IF init # NoNode THEN visit(self, init) ELSE self
        s2 == IF cond # NoNode THEN visit(s1, cond) ELSE s1
        s3 == add_block(IF next # NoNode THEN visit(s2, next) ELSE s2)
    IN  add_block(IF stmt # NoNode THEN visit(s3, stmt) ELSE s3)

\* NodeVisitor.generic_visit: the children that are present, in order
VisitChildren(self, kids, k) ==
    IF k > Len(kids) THEN self
    ELSE IF kids[k] = NoNode THEN VisitChildren(self, kids, k + 1)
    ELSE VisitChildren(visit(self, kids[k]), kids, k + 1)

generic_visit(self, node) == VisitChildren(self, node.kids, 1)

\* NodeVisitor.visit: the method named after the class of the node, the
\* generic one for a class without a method
visit(self, node) ==
    CASE node.kind = "ID" ->
            IF self.module = "backup" THEN backup_visit_ID(self, node)
            ELSE dfc_visit_ID(self, node)
      [] node.kind = "Assignment" ->
            IF self.module = "backup" THEN backup_visit_Assignment(self, node)
            ELSE dfc_visit_Assignment(self, node)
      [] node.kind = "If" -> visit_If(self, node)
      [] node.kind = "While" -> visit_While(self, node)
      [] node.kind = "For" -> visit_For(self, node)
      [] OTHER -> generic_visit(self, node)

\* a pass that removes the killed names after adding the generated ones
RECURSIVE dfc_pass_kill_last(_, _, _)
dfc_pass_kill_last(blks, rd, i) ==
    IF i > Len(blks) THEN rd
    ELSE LET in_defs == IF i > 1 THEN rd[i - 1] ELSE {}
             generated == blks[i].defs
             killed == blks[i].defs
             new_out == (in_defs \cup generated) \ killed
         IN  dfc_pass_kill_last(blks, [rd EXCEPT ![i] = new_out], i + 1)

\* dfc.py lines 91-103: one pass of the for loop, from block i on; the
\* only predecessor of block i in the chain is block i - 1
RECURSIVE dfc_pass(_, _, _)
dfc_pass(blks, rd, i) ==
    IF i > Len(blks) THEN rd
    ELSE LET in_defs == IF i > 1 THEN rd[i - 1] ELSE {}
             generated == blks[i].defs
             killed == blks[i].defs
             new_out == (in_defs \ killed) \cup generated
         IN  dfc_pass(blks, [rd EXCEPT ![i] = new_out], i + 1)

\* a pass in which a definition that reaches a block outlives the block's own
RECURSIVE backup_pass_first_wins(_, _, _)
backup_pass_first_wins(blks, r, i) ==
    IF i > Len(blks) THEN r
    ELSE LET new_in == IF i > 1 THEN r.out[i - 1] ELSE {}
             reaching_vars == {d[1] : d \in new_in}
             generated == {<<var, i>> : var \in blks[i].defs \ reaching_vars}
             new_out == new_in \cup generated
         IN  backup_pass_first_wins(blks, [in |-> [r.in EXCEPT ![i] = new_in],
                                           out |-> [r.out EXCEPT ![i] = new_out]], i + 1)

\* a pass in which a block kills nothing
RECURSIVE backup_pass_no_kill(_, _, _)
backup_pass_no_kill(blks, r, i) ==
    IF i > Len(blks) THEN r
    ELSE LET new_in == IF i > 1 THEN r.out[i - 1] ELSE {}
             generated == {<<var, i>> : var \in blks[i].defs}
             new_out == new_in \cup generated
         IN  backup_pass_no_kill(blks, [in |-> [r.in EXCEPT ![i] = new_in],
                                        out |-> [r.out EXCEPT ![i] = new_out]], i + 1)

\* dfc_pycparser_backup.py lines 134-153; a definition is <<var, blk>>,
\* blk the position of its block in the list
RECURSIVE backup_pass(_, _, _)
backup_pass(blks, r, i) ==
    IF i > Len(blks) THEN r
    ELSE LET new_in == IF i > 1 THEN r.out[i - 1] ELSE {}
             generated == {<<var, i>> : var \in blks[i].defs}
             killed_vars == blks[i].defs
             surviving == {d \in new_in : d[1] \notin killed_vars}
             new_out == surviving \cup generated
         IN  backup_pass(blks, [in |-> [r.in EXCEPT ![i] = new_in],
                                out |-> [r.out EXCEPT ![i] = new_out]], i + 1)

\* the total without the definitions a block receives from itself
dfc_sum_less_own(rd) ==
    SumSeq([i \in 1..Len(rd) |-> Cardinality(rd[i]) - 1])

\* dfc.py line 106
dfc_sum(rd) ==
    SumSeq([i \in 1..Len(rd) |-> Cardinality(rd[i])])

\* dfc_pycparser_backup.py lines 156-162
backup_sum(blks, rin) ==
    SumSeq([i \in 1..Len(blks) |->
               Cardinality({d \in rin[i] : d[1] \in blks[i].exposed /\ d[2] # i})])

(***************************************************************************)
(* The trees and the files of the walk.  Each file has the outcome of      *)
(* each of the three tiers of analyze_file.                                *)
(***************************************************************************)
MaxStmts == 2

X == ID("x")
Y == ID("y")
AssignOne == Assignment(X, Constant)                  \* x = 1;
Increment == Assignment(X, BinaryOp(X, Constant))     \* x = x + 1;
CopyXToY == Assignment(Y, X)                          \* y = x;

\* statements in which no name occurs twice
IfElseDistinct ==                                     \* if (c) t = u; else e = v;
    If(ID("c"), Assignment(ID("t"), ID("u")), Assignment(ID("e"), ID("v")))
WhileDistinct ==                                      \* while (c) t = u;
    While(ID("c"), Assignment(ID("t"), ID("u")))
ForDistinct ==                                        \* for (i = 1; c; n = 1) t = u;
    For(Assignment(ID("i"), Constant), ID("c"), Assignment(ID("n"), Constant),
        Assignment(ID("t"), ID("u")))
NestedDistinct ==                                     \* while (c) { if (d) t = 1; e = 1; }
    While(ID("c"), Compound(<<If(ID("d"), Assignment(ID("t"), Constant), NoNode),
                              Assignment(ID("e"), Constant)>>))

StmtFrags ==
    { AssignOne, Increment, CopyXToY,
      Assignment(ArrayRef(ID("a"), X), Y),            \* a[x] = y;
      Y,                                              \* y;
      Decl("y", X),                                   \* int y = x;
      EmptyStatement,                                 \* ;
      If(X, Assignment(Y, Constant), CopyXToY),       \* if (x) y = 1; else y = x;
      If(Y, Increment, NoNode),                       \* if (y) x = x + 1;
      While(X, Compound(<<Increment, CopyXToY>>)),    \* while (x) { x = x + 1; y = x; }
      While(X, If(Y, AssignOne, NoNode)),             \* while (x) if (y) x = 1;
      For(AssignOne, X, Increment, CopyXToY),         \* for (x = 1; x; x = x + 1) y = x;
      For(NoNode, NoNode, NoNode, EmptyStatement),    \* for (;;) ;
      IfElseDistinct, WhileDistinct, ForDistinct, NestedDistinct }

\* a file with one function of the given statements
Program(stmts) == FileAST(<<Node("FuncDef", "f", <<Compound(stmts)>>)>>)
EmptyProgram == FileAST(<<>>)
Programs == {Program(b) : b \in SeqsUpTo(StmtFrags, MaxStmts)} \cup {EmptyProgram}

Outcome(status, ast) == [status |-> status, ast |-> ast]
Raises == Outcome("raise", NoNode)
Parsed(ast) == Outcome("ast", ast)

\* tiers 1 and 2: an exception, or a tree
Tier12Outcomes ==
    {Raises, Parsed(EmptyProgram), Parsed(Program(<<CopyXToY>>))}

\* tier 3: subprocess.run raises (TimeoutExpired among others), cpp exits
\* non-zero, cpp prints nothing, the parser raises, or a tree
Tier3Outcomes ==
    {Outcome(st, NoNode) : st \in {"timeout", "raise", "nonzero", "no_output", "parse_error"}}
        \cup {Parsed(EmptyProgram), Parsed(Program(<<AssignOne, If(X, CopyXToY, NoNode)>>))}

TierFiles == Tier12Outcomes \X Tier12Outcomes \X Tier3Outcomes

\* what tier t of analyze_file gets for a file.  dfc_pycparser_backup.py
\* lines 213-219 pass capture_output=True together with stderr=, for which
\* subprocess.run raises ValueError before the preprocessor is started
TierOutcome(module, file, t) ==
    IF module = "backup" /\ t = 3 THEN Outcome("raise", NoNode) ELSE file[t]

WalkFiles ==
    { <<Parsed(Program(<<AssignOne, If(X, CopyXToY, NoNode)>>)), Raises, Raises>>,
      <<Parsed(Program(<<Increment>>)), Raises, Raises>>,
      <<Parsed(EmptyProgram), Raises, Parsed(Program(<<CopyXToY, While(Y, Increment)>>))>>,
      <<Raises, Raises, Outcome("timeout", NoNode)>>,
      <<Raises, Raises, Outcome("nonzero", NoNode)>> }

DfcWalks ==
    {<<(<<Parsed(a), Raises, Raises>>)>> : a \in Programs}
        \cup {<<f>> : f \in TierFiles}
        \cup SeqsUpTo(WalkFiles, MaxFiles)

dfcOthers == <<fileVars, operators, operands, metrics, aggVars, lizVars, ccDirVars,
               batchVars, slocVars>>

InitDfc ==
    /\ pc = "dir"
    /\ variant \in {"dfc", "backup"}
    /\ walk \in DfcWalks
    /\ fidx = 1
    /\ dfc = 0
    /\ total_dfc = 0
    /\ tier = 0
    /\ analyzer = NoAnalyzer
    /\ reaching_defs = <<>>
    /\ reaching_in = <<>>
    /\ reaching_out = <<>>
    /\ changed = FALSE
    /\ iteration = 0
    /\ blocks = <<>>
    /\ returned = <<>>
    /\ total_files = 0
    /\ total_blocks = 0
    /\ operators = <<>>
    /\ operands = <<>>
    /\ metrics = None
    /\ IdleFile /\ IdleAgg /\ IdleLizard /\ IdleCcDir /\ IdleBatch
    /\ IdleSloc

\* a file that is tallied only when it has blocks
ReturnUntallied(d, b) ==
    /\ returned' = Append(returned, [dfc |-> d, blocks |-> b])
    /\ total_dfc' = total_dfc + d
    /\ total_blocks' = total_blocks + Len(b)
    /\ total_files' = IF b # <<>> THEN total_files + 1 ELSE total_files
    /\ fidx' = fidx + 1
    /\ tier' = 0
    /\ pc' = "dir"

\* analyze_file returns (d, b) to analyze_directory, dfc.py lines 186-189
ReturnFromFile(d, b) ==
    /\ returned' = Append(returned, [dfc |-> d, blocks |-> b])
    /\ total_dfc' = total_dfc + d
    /\ total_blocks' = total_blocks + Len(b)
    /\ total_files' = total_files + 1
    /\ fidx' = fidx + 1
    /\ tier' = 0
    /\ pc' = "dir"

\* dfc.py lines 179-186, 117: the next file of the walk enters analyze_file
DfcNextFile ==
    /\ pc = "dir"
    /\ fidx <= Len(walk)
    /\ tier' = 1
    /\ pc' = "tier"
    /\ UNCHANGED <<walk, fidx, dfc, total_dfc, variant, analyzer, reaching_defs,
                   reaching_in, reaching_out, changed, iteration, blocks, returned, total_files,
                   total_blocks>>
    /\ UNCHANGED dfcOthers

\* lines 128-130, 147-148: tier 1 or tier 2 raises, the next tier is tried
DfcTierRaises ==
    /\ pc = "tier"
    /\ tier < 3
    /\ TierOutcome(variant, walk[fidx], tier).status # "ast"
    /\ tier' = tier + 1
    /\ UNCHANGED <<pc, walk, fidx, dfc, total_dfc, variant, analyzer, reaching_defs,
                   reaching_in, reaching_out, changed, iteration, blocks, returned, total_files,
                   total_blocks>>
    /\ UNCHANGED dfcOthers

\* lines 151-164: tier 3 fails in any of its ways
DfcTier3Fails ==
    /\ pc = "tier"
    /\ tier = 3
    /\ TierOutcome(variant, walk[fidx], tier).status # "ast"
    /\ ReturnFromFile(0, <<>>)
    /\ UNCHANGED <<walk, dfc, variant, analyzer, reaching_defs, reaching_in,
                   reaching_out, changed, iteration, blocks>>
    /\ UNCHANGED dfcOthers

\* compute_data_flow_complexity up to the fixed-point loop:
\* dfc.py lines 70-87, dfc_pycparser_backup.py lines 105-128
DfcTraverse ==
    /\ pc = "tier"
    /\ TierOutcome(variant, walk[fidx], tier).status = "ast"
    /\ analyzer' = add_block(visit(DataFlowAnalyzer(variant),
                                   TierOutcome(variant, walk[fidx], tier).ast))
    /\ LET n == Len(analyzer'.blocks)
       IN  IF n = 0
           THEN /\ dfc' = 0
                /\ blocks' = analyzer'.blocks
                /\ pc' = "computed"
                /\ UNCHANGED <<reaching_defs, reaching_in, reaching_out, changed, iteration>>
           ELSE /\ IF variant = "dfc"
                   THEN /\ reaching_defs' = [i \in 1..n |-> {}]
                        /\ UNCHANGED <<reaching_in, reaching_out>>
                   ELSE /\ reaching_in' = [i \in 1..n |-> {}]
                        /\ reaching_out' = [i \in 1..n |-> {}]
                        /\ UNCHANGED reaching_defs
                /\ changed' = TRUE
                /\ iteration' = 0
                /\ pc' = "fixpoint"
                /\ UNCHANGED <<dfc, blocks>>
    /\ UNCHANGED <<walk, fidx, total_dfc, variant, tier, returned, total_files,
                   total_blocks>>
    /\ UNCHANGED dfcOthers

\* a pass that always reports a change
DfcSweepNeverSettles ==
    /\ pc = "fixpoint"
    /\ variant = "dfc"
    /\ changed
    /\ reaching_defs' = dfc_pass(analyzer.blocks, reaching_defs, 1)
    /\ changed' = TRUE
    /\ iteration' = iteration + 1
    /\ UNCHANGED <<pc, walk, fidx, dfc, total_dfc, variant, tier, analyzer, reaching_in,
                   reaching_out, blocks, returned, total_files, total_blocks>>
    /\ UNCHANGED dfcOthers

\* dfc.py lines 89-103: one iteration of the while loop
DfcSweep ==
    /\ pc = "fixpoint"
    /\ variant = "dfc"
    /\ changed
    /\ reaching_defs' = dfc_pass(analyzer.blocks, reaching_defs, 1)
    /\ changed' = (reaching_defs' # reaching_defs)
    /\ iteration' = iteration + 1
    /\ UNCHANGED <<pc, walk, fidx, dfc, total_dfc, variant, tier, analyzer, reaching_in,
                   reaching_out, blocks, returned, total_files, total_blocks>>
    /\ UNCHANGED dfcOthers

\* dfc_pycparser_backup.py lines 130-153: one iteration of the while loop
BackupSweep ==
    /\ pc = "fixpoint"
    /\ variant = "backup"
    /\ changed
    /\ LET r == backup_pass(analyzer.blocks, [in |-> reaching_in, out |-> reaching_out], 1)
       IN  /\ reaching_in' = r.in
           /\ reaching_out' = r.out
    /\ changed' = (reaching_in' # reaching_in \/ reaching_out' # reaching_out)
    /\ iteration' = iteration + 1
    /\ UNCHANGED <<pc, walk, fidx, dfc, total_dfc, variant, tier, analyzer, reaching_defs,
                   blocks, returned, total_files, total_blocks>>
    /\ UNCHANGED dfcOthers

\* dfc.py lines 105-107
DfcSum ==
    /\ pc = "fixpoint"
    /\ variant = "dfc"
    /\ ~changed
    /\ dfc' = dfc_sum(reaching_defs)
    /\ blocks' = analyzer.blocks
    /\ pc' = "computed"
    /\ UNCHANGED <<walk, fidx, total_dfc, variant, tier, analyzer, reaching_defs,
                   reaching_in, reaching_out, changed, iteration, returned, total_files,
                   total_blocks>>
    /\ UNCHANGED dfcOthers

\* dfc_pycparser_backup.py lines 155-164
BackupSum ==
    /\ pc = "fixpoint"
    /\ variant = "backup"
    /\ ~changed
    /\ dfc' = backup_sum(analyzer.blocks, reaching_in)
    /\ blocks' = analyzer.blocks
    /\ pc' = "computed"
    /\ UNCHANGED <<walk, fidx, total_dfc, variant, tier, analyzer, reaching_defs,
                   reaching_in, reaching_out, changed, iteration, returned, total_files,
                   total_blocks>>
    /\ UNCHANGED dfcOthers

\* lines 126-127, 145-146: a tier that found blocks returns; lines 157-158:
\* tier 3 returns what it computed
DfcReturn ==
    /\ pc = "computed"
    /\ blocks # <<>> \/ tier = 3
    /\ ReturnFromFile(dfc, blocks)
    /\ UNCHANGED <<walk, dfc, variant, analyzer, reaching_defs, reaching_in,
                   reaching_out, changed, iteration, blocks>>
    /\ UNCHANGED dfcOthers

\* lines 126, 145: no block found by tier 1 or tier 2, the next tier is tried
DfcFallThrough ==
    /\ pc = "computed"
    /\ blocks = <<>>
    /\ tier < 3
    /\ tier' = tier + 1
    /\ pc' = "tier"
    /\ UNCHANGED <<walk, fidx, dfc, total_dfc, variant, analyzer, reaching_defs,
                   reaching_in, reaching_out, changed, iteration, blocks, returned, total_files,
                   total_blocks>>
    /\ UNCHANGED dfcOthers

\* line 191
DfcDirReturn ==
    /\ pc = "dir"
    /\ fidx > Len(walk)
    /\ pc' = "done"
    /\ UNCHANGED <<walk, fidx, dfc, total_dfc, variant, tier, analyzer, reaching_defs,
                   reaching_in, reaching_out, changed, iteration, blocks, returned, total_files,
                   total_blocks>>
    /\ UNCHANGED dfcOthers

NextDfc ==
    \/ DfcNextFile \/ DfcTierRaises \/ DfcTier3Fails \/ DfcTraverse
    \/ DfcSweep \/ BackupSweep \/ DfcSum \/ BackupSum
    \/ DfcReturn \/ DfcFallThrough \/ DfcDirReturn

SpecDfc == InitDfc /\ [][NextDfc]_vars

\* C13: both variants of compute_data_flow_complexity return a natural
\* number, and 0 with an empty block list when the traversal made no block.
C13_NonNegativeAndZeroOnEmpty ==
    pc = "computed" =>
        /\ dfc \in Nat
        /\ blocks = analyzer.blocks
        /\ analyzer.blocks = <<>> => dfc = 0 /\ blocks = <<>>

\* the origin-tracking variant on a file without any statement
C13_Witness ==
    /\ pc = "computed"
    /\ variant = "backup"
    /\ walk[fidx][tier].ast = EmptyProgram
    /\ blocks = <<>>
    /\ dfc = 0

\* no tier of the file gives a tree
AllTiersFail(file) == \A t \in 1..3 : file[t].status # "ast"

\* C14: analyze_file hands a (dfc, blocks) pair to analyze_directory for
\* every file it was given, whatever the outcomes of the three tiers; the
\* pair is (0, []) when every tier fails, and such a file still counts 1
\* in the files tally and 0 in dfc and blocks.
C14_AnalyzeFileNeverRaises ==
    /\ pc \in {"dir", "tier", "fixpoint", "computed", "done"}
    /\ Len(returned) = fidx - 1
    /\ pc = "done" => Len(returned) = Len(walk)
    /\ total_files = Len(returned)
    /\ total_dfc = SumSeq([i \in 1..Len(returned) |-> returned[i].dfc])
    /\ total_blocks = SumSeq([i \in 1..Len(returned) |-> Len(returned[i].blocks)])
    /\ \A i \in 1..Len(returned) :
           /\ returned[i].dfc \in Nat
           /\ AllTiersFail(walk[i]) => returned[i].dfc = 0 /\ returned[i].blocks = <<>>

\* a file whose preprocessor run times out, followed by a file with blocks
C14_Witness ==
    /\ pc = "done"
    /\ Len(walk) = 2
    /\ AllTiersFail(walk[1])
    /\ walk[1][3].status = "timeout"
    /\ returned[1].dfc = 0 /\ returned[1].blocks = <<>>
    /\ returned[2].blocks # <<>>
    /\ total_files = 2
    /\ total_blocks = Len(returned[2].blocks)
    /\ total_dfc = returned[2].dfc

(***************************************************************************)
(* The batch entry points of cc.py, halstead.py, dfc.py and dfc_lizard.py: *)
(* the same four projects, one CSV file for each.  A CSV file is the       *)
(* sequence of its rows, <<>> while it has not been opened; the rows that  *)
(* carry values are one row "values".                                      *)
(***************************************************************************)
Tools == {"cc", "halstead", "dfc", "dfc_lizard"}

\* the src of the four projects of every __main__
ProjectSrcs == <<"jsoncpp/src/lib_json", "ogre/OgreMain/src", "sqlite/src", "tmux">>

\* what is at a project's src when the batch runs
PathKinds == {"directory", "file", "missing"}

CcHeader == <<"filename", "function_start", "function_end", "cyclomatic">>
HalsteadHeader ==
    <<"n1", "n2", "N1", "N2", "vocabulary", "length", "volume", "difficulty",
      "effort", "time", "bugs">>
DfcHeader == <<"dfc", "files", "blocks">>
LizardHeader == <<"dfc", "files", "functions">>

HeaderOf(t) ==
    CASE t = "cc" -> CcHeader
      [] t = "halstead" -> HalsteadHeader
      [] t = "dfc" -> DfcHeader
      [] OTHER -> LizardHeader

ValuesRow == <<"values">>

\* the rows of the error CSV: writerow(["error"]), writerow(["path not found: <src>"])
ErrorCsv(src) == << <<"error">>, <<"path not found: ", src>> >>

\* what the metrics call of a project does: cc.py lines 22-23, halstead.py
\* lines 114-115 and 147-153, dfc.py lines 172-173 and 206-210,
\* dfc_lizard.py lines 62-63 and 96-100
get_metrics(proj) ==
    IF proj.kind = "missing" THEN "FileNotFoundError" ELSE "metrics"

InitBatch ==
    /\ pc = "batch"
    /\ tool \in Tools
    /\ projects \in {[i \in 1..Len(ProjectSrcs) |-> [src |-> ProjectSrcs[i], kind |-> k[i]]] :
                        k \in [1..Len(ProjectSrcs) -> PathKinds]}
    /\ pidx = 1
    /\ csv = [i \in 1..Len(ProjectSrcs) |-> <<>>]
    /\ results = <<>>
    /\ content = None /\ code = None /\ code2 = None /\ hcode = None /\ hcode2 = None
    /\ pos = 0 /\ matches = <<>> /\ work = None /\ opidx = 0
    /\ operators = <<>>
    /\ operands = <<>>
    /\ metrics = None
    /\ IdleDir /\ IdleAgg /\ IdleLizard /\ IdleSum /\ IdleDfc /\ IdleCcDir
    /\ IdleSloc

batchOthers ==
    <<content, code, stripVars, pos, matches, tokVars, halVars, dirVars, aggVars,
      lizVars, sumVars, dfcVars, ccDirVars, slocVars>>

\* the missing root ends the script
BatchMissingExits ==
    /\ pc = "batch"
    /\ tool \in {"dfc", "dfc_lizard"}
    /\ pidx <= Len(projects)
    /\ get_metrics(projects[pidx]) = "FileNotFoundError"
    /\ pc' = "exit"
    /\ UNCHANGED <<tool, projects, pidx, csv, results>>
    /\ UNCHANGED batchOthers

\* cc.py lines 209-214: the file is opened, the header and the details written
CcBatchProject ==
    /\ pc = "batch"
    /\ tool = "cc"
    /\ pidx <= Len(projects)
    /\ get_metrics(projects[pidx]) = "metrics"
    /\ csv' = [csv EXCEPT ![pidx] = <<CcHeader, ValuesRow>>]
    /\ pidx' = pidx + 1
    /\ UNCHANGED <<pc, tool, projects, results>>
    /\ UNCHANGED batchOthers

\* cc.py lines 209-218: the file is opened and the header written, the
\* metrics call raises out of the loop, the handler calls sys.exit(1)
CcBatchMissing ==
    /\ pc = "batch"
    /\ tool = "cc"
    /\ pidx <= Len(projects)
    /\ get_metrics(projects[pidx]) = "FileNotFoundError"
    /\ csv' = [csv EXCEPT ![pidx] = <<CcHeader>>]
    /\ pc' = "exit"
    /\ UNCHANGED <<tool, projects, pidx, results>>
    /\ UNCHANGED batchOthers

\* halstead.py lines 169-171
HalMatrixProject ==
    /\ pc = "batch"
    /\ tool = "halstead"
    /\ pidx <= Len(projects)
    /\ get_metrics(projects[pidx]) = "metrics"
    /\ results' = Append(results, [error |-> <<>>])
    /\ pidx' = pidx + 1
    /\ UNCHANGED <<pc, tool, projects, csv>>
    /\ UNCHANGED batchOthers

\* halstead.py lines 169-173
HalMatrixMissing ==
    /\ pc = "batch"
    /\ tool = "halstead"
    /\ pidx <= Len(projects)
    /\ get_metrics(projects[pidx]) = "FileNotFoundError"
    /\ results' = Append(results, [error |-> <<"path not found: ", projects[pidx].src>>])
    /\ pidx' = pidx + 1
    /\ UNCHANGED <<pc, tool, projects, csv>>
    /\ UNCHANGED batchOthers

\* halstead.py lines 174, 211-212
HalMatrixReturn ==
    /\ pc = "batch"
    /\ tool = "halstead"
    /\ pidx > Len(projects)
    /\ pc' = "write"
    /\ pidx' = 1
    /\ UNCHANGED <<tool, projects, csv, results>>
    /\ UNCHANGED batchOthers

\* halstead.py lines 212-222
HalWrite ==
    /\ pc = "write"
    /\ pidx <= Len(projects)
    /\ csv' = [csv EXCEPT ![pidx] =
                  IF results[pidx].error = <<>> THEN <<HalsteadHeader, ValuesRow>>
                  ELSE << <<"error">>, results[pidx].error >>]
    /\ pidx' = pidx + 1
    /\ UNCHANGED <<pc, tool, projects, results>>
    /\ UNCHANGED batchOthers

\* dfc.py lines 256-259, dfc_lizard.py lines 147-151
DfcBatchProject ==
    /\ pc = "batch"
    /\ tool \in {"dfc", "dfc_lizard"}
    /\ pidx <= Len(projects)
    /\ get_metrics(projects[pidx]) = "metrics"
    /\ csv' = [csv EXCEPT ![pidx] = <<HeaderOf(tool), ValuesRow>>]
    /\ pidx' = pidx + 1
    /\ UNCHANGED <<pc, tool, projects, results>>
    /\ UNCHANGED batchOthers

\* dfc.py lines 260-265, dfc_lizard.py lines 152-159
DfcBatchMissing ==
    /\ pc = "batch"
    /\ tool \in {"dfc", "dfc_lizard"}
    /\ pidx <= Len(projects)
    /\ get_metrics(projects[pidx]) = "FileNotFoundError"
    /\ csv' = [csv EXCEPT ![pidx] = ErrorCsv(projects[pidx].src)]
    /\ pidx' = pidx + 1
    /\ UNCHANGED <<pc, tool, projects, results>>
    /\ UNCHANGED batchOthers

\* the loop over the projects is over: cc.py line 214, halstead.py line
\* 224, dfc.py line 267, dfc_lizard.py line 161
BatchEnd ==
    /\ \/ pc = "batch" /\ tool # "halstead"
       \/ pc = "write"
    /\ pidx > Len(projects)
    /\ pc' = "done"
    /\ UNCHANGED <<tool, projects, pidx, csv, results>>
    /\ UNCHANGED batchOthers

NextBatch ==
    \/ CcBatchProject \/ CcBatchMissing
    \/ HalMatrixProject \/ HalMatrixMissing \/ HalMatrixReturn \/ HalWrite
    \/ DfcBatchProject \/ DfcBatchMissing
    \/ BatchEnd

SpecBatch == InitBatch /\ [][NextBatch]_vars

\* the projects listed before project i whose root is missing
MissingBefore(i) == {j \in 1..(i - 1) : projects[j].kind = "missing"}

\* C15: when the cc.py batch has ended, every project listed after a
\* project with a missing root has its CSV file written with its values.
C15_CcBatchContinues ==
    (tool = "cc" /\ pc \in {"done", "exit"}) =>
        \A i \in 1..Len(projects) :
            (MissingBefore(i) # {} /\ projects[i].kind # "missing")
                => csv[i] = <<CcHeader, ValuesRow>>

\* C16: the halstead.py, dfc.py and dfc_lizard.py batches never stop at a
\* missing root; when they end, each project with a missing root has the
\* error CSV with its src, and every other project, those listed after a
\* missing root included, has its metrics CSV.
C16_ErrorCsvThenContinue ==
    tool \in {"halstead", "dfc", "dfc_lizard"} =>
        /\ pc # "exit"
        /\ pc = "done" =>
               \A i \in 1..Len(projects) :
                   IF get_metrics(projects[i]) = "FileNotFoundError"
                   THEN csv[i] = ErrorCsv(projects[i].src)
                   ELSE csv[i] = <<HeaderOf(tool), ValuesRow>>

\* the second root is missing and the third project is analyzed after it
C16_Witness ==
    /\ tool \in {"halstead", "dfc", "dfc_lizard"}
    /\ pc = "done"
    /\ projects[2].kind = "missing"
    /\ projects[3].kind = "directory"
    /\ csv[2] = << <<"error">>, <<"path not found: ", "ogre/OgreMain/src">> >>
    /\ csv[3] = <<HeaderOf(tool), ValuesRow>>

(***************************************************************************)
(* project.get_cc_metrics over a directory (cc.py).  A file of the walk    *)
(* has the outcome of open/read with each encoding and the text a          *)
(* successful read gives; its path is its position in the walk.            *)
(***************************************************************************)
\* cc.py lines 87-96; opened is the list of encodings open() was given
_read_file_with_fallback(file) ==
    IF file.utf8 = "ok"
    THEN [raised |-> "", content |-> file.text, opened |-> <<"utf-8">>]
    ELSE IF file.utf8 \in {"UnicodeDecodeError", "PermissionError"}
    THEN IF file.latin1 = "ok"
         THEN [raised |-> "", content |-> file.text, opened |-> <<"utf-8", "latin-1">>]
         ELSE [raised |-> "", content |-> None, opened |-> <<"utf-8", "latin-1">>]
    ELSE [raised |-> file.utf8, content |-> None, opened |-> <<"utf-8">>]

\* cc.py lines 123-170: the loop over the matches, from position from on
RECURSIVE FindFunctionsFrom(_, _, _, _)

\* cc.py lines 144-170: the record of a match whose braces balance
FunctionRecord(file_path, text, m_start, m_end, close_brace_idx) ==
    [filename |-> file_path,
     function_start |-> start_line(text, m_start),
     function_end |-> end_line(text, close_brace_idx),
     cc |-> cc_of(Slice(text, m_end, close_brace_idx))]

\* cc.py lines 141-142 and 165: continue when no closing brace was found
AfterBraces(file_path, text, m_start, m_end, close_brace_idx, found) ==
    IF close_brace_idx = 0
    THEN FindFunctionsFrom(file_path, text, m_end, found)
    ELSE FindFunctionsFrom(file_path, text, m_end,
             Append(found, FunctionRecord(file_path, text, m_start, m_end,
                                          close_brace_idx)))

\* cc.py lines 124-140: open_brace_idx = m.end() - 1 and the brace scan
AtMatch(file_path, text, m_start, m_end, found) ==
    AfterBraces(file_path, text, m_start, m_end, ScanBraces(text, m_end - 1, 0), found)

\* cc.py line 123: the next match of finditer, if any
NextMatch(file_path, text, m_start, found) ==
    IF m_start = 0 THEN found
    ELSE AtMatch(file_path, text, m_start, MatchStop(text, m_start), found)

FindFunctionsFrom(file_path, text, from, found) ==
    NextMatch(file_path, text, FirstMatch(text, from), found)

\* cc.py lines 109-172
find_functions_in_file(file_path, file) ==
    LET r == _read_file_with_fallback(file)
    IN  IF r.raised # "" THEN [raised |-> r.raised, funcs |-> <<>>, opened |-> r.opened]
        ELSE IF r.content = None THEN [raised |-> "", funcs |-> <<>>, opened |-> r.opened]
        ELSE [raised |-> "", opened |-> r.opened,
              funcs |-> FindFunctionsFrom(file_path,
                                          _strip_comments_and_strings(r.content), 1, <<>>)]

\* the result of find_functions_in_file passed on as it is
Uncaught(r) ==
    [raised |-> r.raised, is_none |-> FALSE, funcs |-> r.funcs, opened |-> r.opened]

\* cc.py lines 32-34: except Exception: return None
ReturnNoneOnException(r) ==
    IF r.raised # ""
    THEN [raised |-> "", is_none |-> TRUE, funcs |-> <<>>, opened |-> r.opened]
    ELSE [raised |-> "", is_none |-> FALSE, funcs |-> r.funcs, opened |-> r.opened]

\* handle_file without its try statement
handle_file_uncaught(file_path, file) ==
    Uncaught(find_functions_in_file(file_path, file))

\* cc.py lines 29-34: None when find_functions_in_file raises
handle_file(file_path, file) ==
    ReturnNoneOnException(find_functions_in_file(file_path, file))

TextOneFunction == <<"t", " ", "f", "(", ")", "{", "i", "f", "}">>     \* t f(){if}
TextTwoFunctions ==                                                    \* t f(){}t g(){?}
    <<"t", " ", "f", "(", ")", "{", "}", "t", " ", "g", "(", ")", "{", "?", "}">>
TextNoFunction == <<"x">>

\* the ways a read goes: utf-8 succeeds; utf-8 fails to decode or is
\* refused and latin-1 succeeds or fails; utf-8 raises another error
CcFiles ==
    {[utf8 |-> "ok", latin1 |-> "ok", text |-> t] :
        t \in {TextOneFunction, TextTwoFunctions, TextNoFunction}}
    \cup {[utf8 |-> "UnicodeDecodeError", latin1 |-> "ok", text |-> TextOneFunction],
          [utf8 |-> "PermissionError", latin1 |-> "ok", text |-> TextTwoFunctions]}
    \cup {[utf8 |-> "UnicodeDecodeError", latin1 |-> "OSError", text |-> TextOneFunction],
          [utf8 |-> "PermissionError", latin1 |-> "PermissionError", text |-> TextOneFunction]}
    \cup {[utf8 |-> "OSError", latin1 |-> "OSError", text |-> TextOneFunction]}

InitCcDir ==
    /\ pc = "files"
    /\ walk \in SeqsUpTo(CcFiles, MaxFiles)
    /\ fidx = 1
    /\ reads = <<>>
    /\ details = <<>>
    /\ total_cc = 0
    /\ files_count = 0
    /\ operators = <<>>
    /\ operands = <<>>
    /\ metrics = None
    /\ IdleFile /\ IdleAgg /\ IdleLizard /\ IdleSum /\ IdleDfc /\ IdleBatch
    /\ IdleSloc

ccDirOthers ==
    <<fileVars, operators, operands, metrics, aggVars, lizVars, sumVars, dfcVars,
      batchVars, slocVars>>

\* cc.py lines 53-57: if recs: the records are appended and counted
TallyRecords(recs) ==
    /\ recs.raised = ""
    /\ ~recs.is_none /\ recs.funcs # <<>>
    /\ reads' = Append(reads, recs.opened)
    /\ details' = details \o recs.funcs
    /\ total_cc' = total_cc + SumSeq([k \in 1..Len(recs.funcs) |-> recs.funcs[k].cc])
    /\ files_count' = files_count + 1

\* cc.py lines 52-53: recs is None or empty; an exception that leaves
\* handle_file leaves get_cc_metrics
TallyNothing(recs) ==
    /\ recs.raised # "" \/ recs.is_none \/ recs.funcs = <<>>
    /\ reads' = Append(reads, recs.opened)
    /\ pc' = IF recs.raised # "" THEN "raise" ELSE pc

\* cc.py lines 46-57: a file whose records are tallied
CcDirRecords ==
    /\ pc = "files"
    /\ fidx <= Len(walk)
    /\ TallyRecords(handle_file(fidx, walk[fidx]))
    /\ fidx' = fidx + 1
    /\ UNCHANGED <<pc, walk>>
    /\ UNCHANGED ccDirOthers

\* cc.py lines 46-53: a file that leaves the totals as they are
CcDirNothing ==
    /\ pc = "files"
    /\ fidx <= Len(walk)
    /\ TallyNothing(handle_file(fidx, walk[fidx]))
    /\ fidx' = fidx + 1
    /\ UNCHANGED <<walk, details, total_cc, files_count>>
    /\ UNCHANGED ccDirOthers

\* cc.py line 59
CcDirReturn ==
    /\ pc = "files"
    /\ fidx > Len(walk)
    /\ pc' = "returned"
    /\ UNCHANGED <<walk, fidx, reads, details, total_cc, files_count>>
    /\ UNCHANGED ccDirOthers

NextCcDir == CcDirRecords \/ CcDirNothing \/ CcDirReturn

SpecCcDir == InitCcDir /\ [][NextCcDir]_vars

\* neither attempt reads the file, or the first raises another error
Unreadable(file) ==
    /\ file.utf8 # "ok"
    /\ file.utf8 \in {"UnicodeDecodeError", "PermissionError"} => file.latin1 # "ok"

RecordsOf(i) == {k \in 1..Len(details) : details[k].filename = i}

\* C17: every file is opened as utf-8 first and, after a decode failure,
\* once more as latin-1 and never again; a file that cannot be read has no
\* record and adds nothing to total_cc and files_count; get_cc_metrics
\* does not raise.
C17_ReadFallback ==
    /\ pc # "raise"
    /\ pc = "returned" => Len(reads) = Len(walk)
    /\ \A i \in 1..Len(reads) :
           /\ reads[i][1] = "utf-8"
           /\ Len(reads[i]) <= 2
           /\ walk[i].utf8 = "UnicodeDecodeError" => reads[i] = <<"utf-8", "latin-1">>
           /\ walk[i].utf8 = "ok" => reads[i] = <<"utf-8">>
           /\ Unreadable(walk[i]) => RecordsOf(i) = {}
    /\ total_cc = SumSeq([k \in 1..Len(details) |-> details[k].cc])
    /\ files_count = Cardinality({i \in 1..Len(reads) : RecordsOf(i) # {}})
    /\ \A k \in 1..Len(details) : ~Unreadable(walk[details[k].filename])

\* a file readable after the retry, one unreadable by both encodings and
\* one whose first read raises another error
C17_Witness ==
    /\ pc = "returned"
    /\ Len(walk) = 3
    /\ walk[1].utf8 = "UnicodeDecodeError" /\ walk[1].latin1 = "ok"
    /\ walk[2].utf8 = "UnicodeDecodeError" /\ walk[2].latin1 = "OSError"
    /\ walk[3].utf8 = "OSError"
    /\ reads = << <<"utf-8", "latin-1">>, <<"utf-8", "latin-1">>, <<"utf-8">> >>
    /\ files_count = 1
    /\ total_cc = 2
    /\ Len(details) = 1

InHeaderOfMatch(p) == \E k \in 1..Len(matches) : matches[k].start < p /\ p < matches[k].end

\* C19: the iterations take the header matches from left to right, each
\* search starting just after the opening brace of the match before; when
\* the loop is over no header match outside the header text of another is
\* left out, and each match whose brace closes has its own record, also
\* when it starts inside the body of an earlier match.
C19_NestedMatchNotSkipped ==
    code # None =>
        /\ \A k \in 1..Len(matches) :
               /\ matches[k].start = FirstMatch(code, IF k = 1 THEN 1 ELSE matches[k - 1].end)
               /\ matches[k].end = MatchStop(code, matches[k].start)
               /\ code[matches[k].end - 1] = "{"
        /\ pc = "done" =>
               \A p \in 1..Len(code) :
                   (~InHeaderOfMatch(p) /\ HeaderEnds(code, p) # {})
                       => \E k \in 1..Len(matches) : matches[k].start = p
        /\ Len(results) = Len(Emitted)
        /\ \A k \in 1..Len(Emitted) :
               /\ results[k].function_start = start_line(code, Emitted[k].start)
               /\ results[k].function_end = end_line(code, Emitted[k].close)
               /\ results[k].cc = cc_of(BodyOf(Emitted[k]))

\* a function whose body holds "else if(x){": one record for the function
\* and one for the match inside its body
C19_Witness ==
    /\ pc = "done"
    /\ Len(results) = 2
    /\ Len(Emitted) = 2
    /\ Emitted[2].start > Emitted[1].end
    /\ Emitted[2].close < Emitted[1].close
    /\ LitAt(code, Emitted[2].start, <<"e", "l", "s", "e", " ", "i", "f">>)
           \/ LitAt(code, Emitted[2].start + 1, <<"e", "l", "s", "e", " ", "i", "f">>)

(***************************************************************************)
(* Locally exposed variables of a block of straight-line statements, from  *)
(* the order of evaluation: the right-hand side of an assignment is        *)
(* evaluated before its target is assigned.                                *)
(***************************************************************************)
RECURSIVE IdsOf(_)
IdsOf(node) ==
    IF node.kind = "ID" THEN {node.name}
    ELSE UNION {IdsOf(node.kids[k]) : k \in 1..Len(node.kids)}

IsSimpleStatement(node) ==
    \/ node.kind \in {"ID", "Decl", "EmptyStatement"}
    \/ node.kind = "Assignment" /\ node.kids[1].kind = "ID"

\* the variables read by the statements from k on before any of the
\* statements, or an earlier one (defined), has assigned them
RECURSIVE UsedBeforeDefined(_, _, _)
UsedBeforeDefined(stmts, k, defined) ==
    IF k > Len(stmts) THEN {}
    ELSE IF stmts[k].kind = "Assignment"
    THEN (IdsOf(stmts[k].kids[2]) \ defined)
             \cup UsedBeforeDefined(stmts, k + 1, defined \cup {stmts[k].kids[1].name})
    ELSE (IdsOf(stmts[k]) \ defined) \cup UsedBeforeDefined(stmts, k + 1, defined)

\* the statements of the function of a file
StatementsOf(ast) == IF ast.kids = <<>> THEN <<>> ELSE ast.kids[1].kids[1].kids

\* C20: in the origin-tracking analyzer the exposed set of a block holds
\* every variable the block uses before defining it; the block of
\* "x = x + 1" has x in exposed.
C20_ExposedUsedBeforeDefined ==
    (pc = "computed" /\ variant = "backup" /\ Len(blocks) = 1) =>
        LET stmts == StatementsOf(walk[fidx][tier].ast)
        IN  (\A k \in 1..Len(stmts) : IsSimpleStatement(stmts[k]))
                => UsedBeforeDefined(stmts, 1, {}) \subseteq blocks[1].exposed
(***************************************************************************)
(* The blocks a traversal leaves in the analyzer.                          *)
(***************************************************************************)
EmptyBlock(b) == b.defs = {} /\ b.uses = {}

\* C21: once compute_data_flow_complexity has traversed a tree, no block of
\* analyzer.blocks has both defs and uses empty, and the current block of
\* the analyzer is a fresh empty one.
C21_NoEmptyBlock ==
    analyzer # NoAnalyzer =>
        /\ \A i \in 1..Len(analyzer.blocks) : ~EmptyBlock(analyzer.blocks[i])
        /\ EmptyBlock(analyzer.current_block)
        /\ analyzer.module = "backup" => analyzer.current_block.exposed = {}

\* for (;;) ; x = 1;  the loop closes two empty blocks, the assignment one
C21_Witness ==
    /\ pc = "fixpoint"
    /\ StatementsOf(walk[fidx][tier].ast)
           = <<For(NoNode, NoNode, NoNode, EmptyStatement), AssignOne>>
    /\ Len(analyzer.blocks) = 1
    /\ analyzer.blocks[1].defs = {"x"}

(***************************************************************************)
(* Where the names of a tree end up.  In a tree in which no name occurs    *)
(* twice, the names of a block tell which statements the block was filled  *)
(* from.                                                                   *)
(***************************************************************************)
RECURSIVE IdCount(_)
IdCount(node) ==
    IF node.kind = "ID" THEN 1
    ELSE SumSeq([k \in 1..Len(node.kids) |-> IdCount(node.kids[k])])

DistinctNames(node) == IdCount(node) = Cardinality(IdsOf(node))

\* the arms of the if statements and the bodies of the loops of a tree
RECURSIVE ArmsOf(_)
ArmsOf(node) ==
    LET own == CASE node.kind = "If" -> {node.kids[2], node.kids[3]} \ {NoNode}
                 [] node.kind = "While" -> {node.kids[2]} \ {NoNode}
                 [] node.kind = "For" -> {node.kids[4]} \ {NoNode}
                 [] OTHER -> {}
    IN  own \cup UNION {ArmsOf(node.kids[k]) : k \in 1..Len(node.kids)}

\* what an if or a loop evaluates before its first arm
HeadOf(node) ==
    CASE node.kind = "If" -> IdsOf(node.kids[1])
      [] node.kind = "While" -> IdsOf(node.kids[1])
      [] node.kind = "For" -> IdsOf(node.kids[1]) \cup IdsOf(node.kids[2]) \cup IdsOf(node.kids[3])
      [] OTHER -> {}

NamesOf(b) == b.defs \cup b.uses

\* C22: a block that holds a name of an if arm or of a loop body holds
\* names of that arm only (so none of the other arm, of the condition or
\* of the statements before and after the construct), and the names of
\* the condition, and of the init and next of a for, are in the block of
\* the simple statement before the construct.
C22_ArmsInOwnBlocks ==
    (analyzer # NoAnalyzer /\ pc \in {"fixpoint", "computed"}) =>
        LET ast == TierOutcome(variant, walk[fidx], tier).ast
            stmts == StatementsOf(ast)
            blks == analyzer.blocks
        IN  DistinctNames(ast) =>
              /\ \A arm \in ArmsOf(ast) : \A i \in 1..Len(blks) :
                     NamesOf(blks[i]) \cap IdsOf(arm) # {}
                         => NamesOf(blks[i]) \subseteq IdsOf(arm)
              /\ \A k \in 2..Len(stmts) :
                     (stmts[k].kind \in {"If", "While", "For"}
                          /\ IsSimpleStatement(stmts[k - 1])) =>
                        \A i, j \in 1..Len(blks) :
                            (NamesOf(blks[i]) \cap IdsOf(stmts[k - 1]) # {}
                                 /\ NamesOf(blks[j]) \cap HeadOf(stmts[k]) # {}) => i = j

\* x = 1; if (c) t = u; else e = v;  gives the blocks {x, c}, {t, u}, {e, v}
C22_Witness ==
    /\ pc = "computed"
    /\ StatementsOf(walk[fidx][tier].ast) = <<AssignOne, IfElseDistinct>>
    /\ Len(analyzer.blocks) = 3
    /\ NamesOf(analyzer.blocks[1]) = {"x", "c"}
    /\ NamesOf(analyzer.blocks[2]) = {"t", "u"}
    /\ NamesOf(analyzer.blocks[3]) = {"e", "v"}

(***************************************************************************)
(* The fixed-point loop of compute_data_flow_complexity.                   *)
(***************************************************************************)
\* one more pass over the blocks would change nothing
Settled ==
    IF variant = "dfc"
    THEN dfc_pass(analyzer.blocks, reaching_defs, 1) = reaching_defs
    ELSE backup_pass(analyzer.blocks, [in |-> reaching_in, out |-> reaching_out], 1)
             = [in |-> reaching_in, out |-> reaching_out]

\* C23: with n blocks the while loop makes at most n + 1 passes: the sets
\* have their final values after at most n passes, and the loop exits
\* (changed is false) only after a pass, with the sets at a fixed point.
C23_FixedPointTerminates ==
    pc = "fixpoint" =>
        LET n == Len(analyzer.blocks)
        IN  /\ iteration <= n + 1
            /\ iteration >= n => Settled
            /\ ~changed => (iteration >= 1 /\ Settled)
            /\ changed => iteration <= n

\* three blocks: the loop is left after its second pass
C23_Witness ==
    /\ pc = "fixpoint"
    /\ variant = "backup"
    /\ Len(analyzer.blocks) = 3
    /\ iteration = 2
    /\ ~changed
    /\ reaching_in[3] # {}

\* C24: when the loop of the origin-tracking variant is left, for every
\* block i  IN[i] = OUT[i-1] (empty for the first block) and
\* OUT[i] = (IN[i] less the definitions of variables defined in i) plus
\* (v, i) for every v of defs[i]; the dfc returned is the number of pairs
\* (i, (v, b)) with (v, b) in IN[i], v in exposed[i] and b # i.
C24_OriginTrackingEquations ==
    (variant = "backup" /\ (pc = "computed" \/ (pc = "fixpoint" /\ ~changed))
         /\ analyzer.blocks # <<>>) =>
        LET blks == analyzer.blocks
            n == Len(blks)
        IN  /\ Len(reaching_in) = n /\ Len(reaching_out) = n
            /\ \A i \in 1..n :
                   /\ reaching_in[i] = IF i = 1 THEN {} ELSE reaching_out[i - 1]
                   /\ reaching_out[i]
                          = {d \in reaching_in[i] : d[1] \notin blks[i].defs}
                                \cup {<<v, i>> : v \in blks[i].defs}
            /\ pc = "computed" =>
                   dfc = Cardinality({p \in (1..n) \X UNION {reaching_in[i] : i \in 1..n} :
                                         /\ p[2] \in reaching_in[p[1]]
                                         /\ p[2][1] \in blks[p[1]].exposed
                                         /\ p[2][2] # p[1]})

\* for (x = 1; x; x = x + 1) y = x;  x = x + 1;  the third block replaces
\* the definition of x it receives, the second counts it
C24_Witness ==
    /\ pc = "computed"
    /\ variant = "backup"
    /\ Len(blocks) = 3
    /\ blocks[2].exposed = {"x"}
    /\ reaching_in[3] = {<<"x", 1>>, <<"y", 2>>}
    /\ reaching_out[3] = {<<"x", 3>>, <<"y", 2>>}
    /\ dfc = 1

(***************************************************************************)
(* The tiers of analyze_file.                                              *)
(***************************************************************************)
\* the parser of tier t gave a tree for the file
ParsedBy(file, t) == TierOutcome(variant, file, t).status = "ast"

\* C25: while analyze_file is at tier 2 or 3 of a file, the parsing of every
\* earlier tier of that file has failed; in particular a file that tier 1
\* parses is not handed to the preprocessor of tiers 2 and 3.
C25_LaterTierOnlyAfterParseFailure ==
    /\ tier \in 0..3
    /\ pc = "tier" => \A t \in 1..(tier - 1) : ~ParsedBy(walk[fidx], t)

\* what compute_data_flow_complexity of the module gives for a tree: the
\* blocks of the traversal and the sum over the sets one pass from the
\* empty sets leaves
ResultFor(module, ast) ==
    LET blks == add_block(visit(DataFlowAnalyzer(module), ast)).blocks
        n == Len(blks)
        empty == [i \in 1..n |-> {}]
    IN  [blocks |-> blks,
         dfc |-> IF module = "dfc"
                 THEN dfc_sum(dfc_pass(blks, empty, 1))
                 ELSE backup_sum(blks, backup_pass(blks, [in |-> empty, out |-> empty], 1).in)]

\* tiers 1 and 2 raise, the preprocessor exits with status 0 and its
\* output parses
OnlyTier3Parses(file) ==
    /\ file[1].status = "raise"
    /\ file[2].status = "raise"
    /\ file[3].status = "ast"

\* C26: for a file that only tier 3 can parse, analyze_file of either
\* module returns the dfc and the blocks computed from the preprocessed
\* text.
C26_Tier3ResultReturned ==
    \A i \in 1..Len(returned) :
        OnlyTier3Parses(walk[i]) => returned[i] = ResultFor(variant, walk[i][3].ast)

\* the names defined in the blocks up to block i
DefsUpTo(blks, i) == UNION {blks[j].defs : j \in 1..i}

\* C27: when the loop of the simple variant is left, reaching_defs[i] is
\* the union of the defs of the blocks up to i, so the sets do not shrink
\* along the chain, and the dfc returned is the sum of their sizes.
C27_SimpleVariantIsPrefixUnion ==
    (variant = "dfc" /\ (pc = "computed" \/ (pc = "fixpoint" /\ ~changed))
         /\ analyzer.blocks # <<>>) =>
        LET blks == analyzer.blocks
            n == Len(blks)
        IN  /\ Len(reaching_defs) = n
            /\ \A i \in 1..n : reaching_defs[i] = DefsUpTo(blks, i)
            /\ \A i \in 2..n : reaching_defs[i - 1] \subseteq reaching_defs[i]
            /\ pc = "computed" =>
                   dfc = SumSeq([i \in 1..n |-> Cardinality(DefsUpTo(blks, i))])

\* for (x = 1; x; x = x + 1) y = x;  x = x + 1;  the third block defines x
\* again and still passes on both names
C27_Witness ==
    /\ pc = "computed"
    /\ variant = "dfc"
    /\ Len(blocks) = 3
    /\ blocks[1].defs = {"x"} /\ blocks[2].defs = {"y"} /\ blocks[3].defs = {"x"}
    /\ reaching_defs = <<{"x"}, {"x", "y"}, {"x", "y"}>>
    /\ dfc = 5

\* the last block before block i that defines v, 0 when there is none
LastDefBefore(blks, v, i) ==
    LET defining == {b \in 1..(i - 1) : v \in blks[b].defs}
    IN  IF defining = {} THEN 0 ELSE CHOOSE b \in defining : \A c \in defining : c <= b

AllDefs(blks) == UNION {blks[j].defs : j \in 1..Len(blks)}

\* C28: when the loop of the origin-tracking variant is left, IN[i] holds
\* for each variable defined before block i exactly the definition made by
\* the last such block, and nothing else; so the first block receives
\* nothing, a single block gives dfc 0, and the dfc returned is at most the
\* sum of the sizes of the exposed sets.
C28_OneReachingDefinitionPerVariable ==
    (variant = "backup" /\ (pc = "computed" \/ (pc = "fixpoint" /\ ~changed))
         /\ analyzer.blocks # <<>>) =>
        LET blks == analyzer.blocks
            n == Len(blks)
        IN  /\ \A i \in 1..n :
                   reaching_in[i] = {<<v, LastDefBefore(blks, v, i)>> :
                                        v \in {w \in AllDefs(blks) :
                                                   LastDefBefore(blks, w, i) # 0}}
            /\ \A i \in 1..n : \A d, e \in reaching_in[i] : d[1] = e[1] => d = e
            /\ reaching_in[1] = {}
            /\ pc = "computed" =>
                   /\ n = 1 => dfc = 0
                   /\ dfc <= SumSeq([i \in 1..n |-> Cardinality(blks[i].exposed)])

\* if (x) y = 1; else y = x;  y;  both arms define y, the last block
\* receives the definition of the else arm only
C28_Witness ==
    /\ pc = "computed"
    /\ variant = "backup"
    /\ Len(blocks) = 4
    /\ blocks[2].defs = {"y"} /\ blocks[3].defs = {"y"}
    /\ blocks[4].exposed = {"y"}
    /\ reaching_in[4] = {<<"y", 3>>}
    /\ dfc = 1

(***************************************************************************)
(* find_functions_in_file: the order of the records and the records of     *)
(* nested matches.                                                         *)
(***************************************************************************)
\* the whole header match of iteration b, brace included, lies between the
\* braces of iteration a
HeaderInsideBody(a, b) == a.end <= b.start /\ b.end <= a.close

\* C29: the records of a file are in non-decreasing function_start order;
\* when the header match of record B lies inside the body of record A, the
\* lines of B are among the lines of A and A.cc >= B.cc, so the decision
\* points of B are in the sum of cc over the records twice.
C29_OrderedAndNestedCounted ==
    code # None =>
        /\ Len(results) = Len(Emitted)
        /\ \A k \in 2..Len(results) :
               results[k - 1].function_start <= results[k].function_start
        /\ \A a, b \in 1..Len(results) :
               HeaderInsideBody(Emitted[a], Emitted[b]) =>
                   /\ a < b
                   /\ results[a].function_start <= results[b].function_start
                   /\ results[b].function_end <= results[a].function_end
                   /\ results[a].cc >= results[b].cc
                   /\ SumSeq([k \in 1..Len(results) |-> results[k].cc]) - Len(results)
                          >= 2 * (results[b].cc - 1)

\* the function of lines 1-4 with cc 3 and, inside it, the match of lines
\* 2-3 with cc 2, whose "?" is counted in both
C29_Witness ==
    /\ pc = "done"
    /\ content = ExampleNested
    /\ Len(results) = 2
    /\ HeaderInsideBody(Emitted[1], Emitted[2])
    /\ results[1].function_start = 1 /\ results[1].function_end = 4 /\ results[1].cc = 3
    /\ results[2].function_start = 2 /\ results[2].function_end = 3 /\ results[2].cc = 2

(***************************************************************************)
(* The line counters of sloc.py and cocomo.py (the two files hold the same *)
(* get_LOC and get_SLOC).  open() in text mode gives every line end as     *)
(* "\n", so a text read from a file holds no "\r"; the replace calls of    *)
(* line 65 drop their result.                                              *)
(***************************************************************************)
MaxLines == 2

\* the position of the first occurrence of lit in s at or after p, 0 if none
FindFrom(s, lit, p) ==
    LET at == {i \in p..Len(s) : LitAt(s, i, lit)}
    IN  IF at = {} THEN 0 ELSE CHOOSE i \in at : \A j \in at : i <= j

\* str.strip()
strip(s) ==
    LET kept == {i \in 1..Len(s) : ~IsSpace(s[i])}
    IN  IF kept = {} THEN <<>>
        ELSE SubSeq(s, CHOOSE i \in kept : \A j \in kept : i <= j,
                       CHOOSE i \in kept : \A j \in kept : j <= i)

\* str.split('\n')
RECURSIVE split_lines(_)
split_lines(text) ==
    IF FindFrom(text, <<NL>>, 1) = 0 THEN <<text>>
    ELSE <<SubSeq(text, 1, FindFrom(text, <<NL>>, 1) - 1)>>
             \o split_lines(SubSeq(text, FindFrom(text, <<NL>>, 1) + 1, Len(text)))

\* the number of lines the iteration over a file object yields
FileLineCount(text) ==
    CountChar(text, NL) + (IF text # <<>> /\ text[Len(text)] # NL THEN 1 ELSE 0)

\* the first n lines of a text, each with its line end
RECURSIVE FirstLines(_, _)
FirstLines(text, n) ==
    IF n = 0 \/ FindFrom(text, <<NL>>, 1) = 0 THEN <<>>
    ELSE SubSeq(text, 1, FindFrom(text, <<NL>>, 1))
             \o FirstLines(SubSeq(text, FindFrom(text, <<NL>>, 1) + 1, Len(text)), n - 1)

\* sloc.py lines 78-83, on the stripped line outside a comment: the flag
\* after the line and whether the line is counted
AfterOpening(stripped_line) ==
    IF FindFrom(stripped_line, <<"/", "*">>, 1) # 0
    THEN [flag |-> TRUE,
          counted |-> strip(SubSeq(stripped_line, 1,
                                   FindFrom(stripped_line, <<"/", "*">>, 1) - 1)) # <<>>]
    ELSE [flag |-> FALSE, counted |-> TRUE]

\* sloc.py lines 76-83
OutsideComment(stripped_line) ==
    IF stripped_line = <<>> \/ LitAt(stripped_line, 1, <<"/", "/">>)
    THEN [flag |-> FALSE, counted |-> FALSE]
    ELSE AfterOpening(stripped_line)

\* sloc.py lines 69-83: one line of the for loop
count_line(flag, line) ==
    IF flag
    THEN IF FindFrom(strip(line), <<"*", "/">>, 1) # 0
         THEN OutsideComment(strip(SubSeq(strip(line),
                                          FindFrom(strip(line), <<"*", "/">>, 1) + 2,
                                          Len(strip(line)))))
         ELSE [flag |-> TRUE, counted |-> FALSE]
    ELSE OutsideComment(strip(line))

SlocLineTexts ==
    { <<>>,                                         \* an empty line
      <<"x">>,                                      \* x
      <<" ", "x", " ">>,                            \*  x
      <<"/", "/", "x">>,                            \* //x
      <<"/", "*", "c", "*", "/">>,                  \* /*c*/
      <<"x", "/", "*", "c", "*", "/">>,             \* x/*c*/
      <<"/", "*", "c", "*", "/", "x">>,             \* /*c*/x
      <<"/", "*", "c">>,                            \* /*c
      <<"c", "*", "/">>,                            \* c*/
      <<"c", "*", "/", "x">>,                       \* c*/x
      <<"x", "/", "*", "c">> }                      \* x/*c

RECURSIVE JoinLines(_)
JoinLines(ls) == IF ls = <<>> THEN <<>> ELSE Head(ls) \o <<NL>> \o JoinLines(Tail(ls))

\* files of up to MaxLines lines, the last line with or without its line end
SlocFiles ==
    LET terminated == {JoinLines(ls) : ls \in SeqsUpTo(SlocLineTexts, MaxLines)}
    IN  terminated \cup {SubSeq(t, 1, Len(t) - 1) : t \in terminated \ {<<>>}}

slocOthers ==
    <<code, stripVars, ccVars, tokVars, halVars, dirVars, aggVars, lizVars, sumVars,
      dfcVars, details, total_cc, files_count, batchVars>>

InitSloc ==
    /\ pc = "open"
    /\ content \in SlocFiles
    /\ reads = <<>>
    /\ lines = <<>>
    /\ line_no = 0
    /\ in_multiline_comment = FALSE
    /\ cnt = 0
    /\ loc = 0
    /\ code = None /\ code2 = None /\ hcode = None /\ hcode2 = None
    /\ pos = 0 /\ matches = <<>> /\ results = <<>> /\ work = None /\ opidx = 0
    /\ operators = <<>>
    /\ operands = <<>>
    /\ metrics = None
    /\ details = <<>> /\ total_cc = 0 /\ files_count = 0
    /\ IdleDir /\ IdleAgg /\ IdleLizard /\ IdleSum /\ IdleDfc /\ IdleBatch

\* sloc.py lines 14-17 and 51-54, 65-67: the file is read as utf-8
SlocReadUtf8 ==
    /\ pc = "open"
    /\ reads' = <<"utf-8">>
    /\ lines' = split_lines(content)
    /\ loc' = FileLineCount(content)
    /\ line_no' = 1
    /\ pc' = "lines"
    /\ UNCHANGED <<content, in_multiline_comment, cnt>>
    /\ UNCHANGED slocOthers

\* sloc.py lines 18-23 and 55-60: decoding fails after n lines were taken
\* (none for a PermissionError) and latin-1 reads the file; cnt and
\* file_content keep what the first attempt gave them
SlocReadLatin1 ==
    /\ pc = "open"
    /\ \E n \in 0..CountChar(content, NL) :
           /\ lines' = split_lines(FirstLines(content, n) \o content)
           /\ loc' = n + FileLineCount(content)
    /\ reads' = <<"utf-8", "latin-1">>
    /\ line_no' = 1
    /\ pc' = "lines"
    /\ UNCHANGED <<content, in_multiline_comment, cnt>>
    /\ UNCHANGED slocOthers

\* sloc.py lines 24-27 and 61-64: both counters return 0
SlocUnreadable ==
    /\ pc = "open"
    /\ reads' = <<"utf-8", "latin-1">>
    /\ loc' = 0
    /\ cnt' = 0
    /\ pc' = "returned"
    /\ UNCHANGED <<content, lines, line_no, in_multiline_comment>>
    /\ UNCHANGED slocOthers

\* sloc.py lines 68-83: the result of one line is taken over
TakeLine(r) ==
    /\ in_multiline_comment' = r.flag
    /\ cnt' = IF r.counted THEN cnt + 1 ELSE cnt

SlocLine ==
    /\ pc = "lines"
    /\ line_no <= Len(lines)
    /\ TakeLine(count_line(in_multiline_comment, lines[line_no]))
    /\ line_no' = line_no + 1
    /\ UNCHANGED <<content, pc, reads, lines, loc>>
    /\ UNCHANGED slocOthers

\* sloc.py line 84
SlocReturn ==
    /\ pc = "lines"
    /\ line_no > Len(lines)
    /\ pc' = "returned"
    /\ UNCHANGED <<content, reads, lines, line_no, in_multiline_comment, cnt, loc>>
    /\ UNCHANGED slocOthers

NextSloc == SlocReadUtf8 \/ SlocReadLatin1 \/ SlocUnreadable \/ SlocLine \/ SlocReturn

SpecSloc == InitSloc /\ [][NextSloc]_vars

\* is a comment open at the end of the line, given whether one is open at
\* position p of it: a "/*" outside a comment opens one, the next "*/"
\* after it closes it
RECURSIVE CommentOpenAtEnd(_, _, _)
CommentOpenAtEnd(line, p, open) ==
    IF open
    THEN IF FindFrom(line, <<"*", "/">>, p) = 0 THEN TRUE
         ELSE CommentOpenAtEnd(line, FindFrom(line, <<"*", "/">>, p) + 2, FALSE)
    ELSE IF FindFrom(line, <<"/", "*">>, p) = 0 THEN FALSE
         ELSE CommentOpenAtEnd(line, FindFrom(line, <<"/", "*">>, p) + 2, TRUE)

\* is a comment open after the first k lines
RECURSIVE CommentOpenAfter(_, _)
CommentOpenAfter(ls, k) ==
    IF k = 0 THEN FALSE
    ELSE CommentOpenAtEnd(ls[k], 1, CommentOpenAfter(ls, k - 1))

\* no line holds "//" together with a comment delimiter
PlainLines(ls) ==
    \A k \in 1..Len(ls) :
        FindFrom(ls[k], <<"/", "/">>, 1) # 0 =>
            /\ FindFrom(ls[k], <<"/", "*">>, 1) = 0
            /\ FindFrom(ls[k], <<"*", "/">>, 1) = 0

\* C30: after each line the flag in_multiline_comment is true exactly when
\* a "/*" of that line or of an earlier one has not been closed by a "*/",
\* and the SLOC of a file is at most its LOC.
C30_CommentFlagAndSlocAtMostLoc ==
    /\ (pc \in {"lines", "returned"} /\ lines # <<>> /\ PlainLines(lines)) =>
           in_multiline_comment = CommentOpenAfter(lines, line_no - 1)
    /\ pc = "returned" => cnt <= loc

====
